---- MODULE Spec2Model ----
(***************************************************************************)
(* Session server of shop-with-friends: the SessionManager (session        *)
(* repository with a Redis backend and an in-memory fallback), the         *)
(* WebSocketHandler (connection registry and message router) and the       *)
(* stand-alone relay server that the demo client talks to; and the client  *)
(* side: the SDK's WebSocketClient and the demo's RealSyncEngine with      *)
(* their reconnect timers.                                                 *)
(*                                                                         *)
(* One action models one event-loop handler, run to completion.            *)
(***************************************************************************)
EXTENDS Integers, Sequences, FiniteSets, Bags, TLC

\* ------------------------------------------------------------------ bounds
NumClients == 3        \* connection identities ever handed out
MaxSessions == 2       \* session ids ever generated
MaxJoins == 3          \* joins accepted in a run, the creating hosts included
MaxSockets == 7        \* transports a client engine opens in a run
MaxConnectCalls == 2   \* connect() calls the SDK's caller makes in a run
MaxListeners == 3      \* listeners registered in a run
MaxHandlers == 1       \* messages of one connection that the step-wise server handles
MaxPeers == 2          \* other participants of the call's session
MaxCandidates == 2     \* ICE candidates a peer sends
MaxStops == 1          \* stopCall() calls in a run
MaxCalls == 4          \* SessionManager calls the SDK's caller makes in a run

\* ------------------------------------------------------- program constants
SESSION_TTL == 1800    \* this.SESSION_TTL = 30 * 60, in seconds
OPEN == "OPEN"         \* ws.readyState === 1
maxReconnectAttempts == 5    \* private maxReconnectAttempts = 5
reconnectDelay == 1000       \* private reconnectDelay = 1000, in ms
MaxReconnectDelay == 10000   \* Math.min(..., 10000): the cap of a delay, in ms

\* ---------------------------------------------------------------- sentinels
NoSession == 0         \* ws.sessionId is undefined
NoClient == 0          \* an absent identity field (targetId, sourceId)
NoTTL == -1            \* time to live of a Redis key that carries no expiry
NoRecord == [id |-> NoSession]   \* getSession(...) === null
NoSocket == 0          \* this.ws / this.socket is null
NoDelay == 0           \* no timer was set
NoCall == 0            \* a listener that belongs to no pending SessionManager call

Clients == 1..NumClients
SessionIds == 1..MaxSessions
SignalTypes == {"offer", "answer", "candidate"}
TickStep == SESSION_TTL

VARIABLES
    program,      \* which server runs: "api" (WebSocketHandler) or "relay" (stand-alone)
    relay,        \* the stand-alone server's sessions Map: per id, host and participants
    sm,           \* the SessionManager: sessions, participants, key expiries, useRedis
    connections,  \* WebSocketHandler.connections: the set of registered clientIds
    readyState,   \* per clientId: "NEW" (no transport yet), OPEN, "CLOSING", "CLOSED"
    wsSessionId,  \* per clientId: ws.sessionId of its transport
    nextSession,  \* how many session ids have been generated
    tally,        \* per session: joins minus leaves so far (observer's count)
    sent,         \* bag of the frames the last handler wrote to transports
    last,         \* which handler ran last, for whom, with what payload
    wsc,          \* the client engine: ws, reconnectAttempts, isConnecting
    sockets,      \* per transport the engine created: its readyState
    timers,       \* bag of the delays of the pending reconnect timers
    rc,           \* observer of the reconnects: what ran last, delays since the last open
    events,       \* EventEmitter.events: per topic, the array of listeners
    em,           \* observer of the emitter: the last call, the listeners it invoked
    calls,        \* per SessionManager call of the SDK: its promise and its timer
    replies,      \* commands the server has received and not yet answered
    sdk,          \* ShopWithFriends: currentSessionId; whether the transport is open
    rtc,          \* WebRTC: localStream, the peer connections, the signals sent
    pending,      \* the Redis connection: the handlers whose command awaits its reply
    tasks         \* per connection: its message handler and its close handler in flight

serverVars == <<relay, sm, connections, readyState, wsSessionId, nextSession, tally, sent, last>>
reconnectVars == <<wsc, sockets, timers, rc>>
emitterVars == <<events, em>>
sdkVars == <<calls, replies, sdk>>
rtcVars == <<rtc>>
asyncVars == <<pending, tasks>>
clientVars == <<reconnectVars, emitterVars, sdkVars, rtcVars, asyncVars>>
notReconnect == <<program, serverVars, emitterVars, sdkVars, rtcVars, asyncVars>>
notEmitter == <<program, serverVars, reconnectVars, sdkVars, rtcVars, asyncVars>>
notSdk == <<program, serverVars, reconnectVars, rtcVars, asyncVars>>
notRtc == <<program, serverVars, reconnectVars, emitterVars, sdkVars, asyncVars>>
notAsync == <<program, relay, tally, reconnectVars, emitterVars, sdkVars, rtcVars>>
vars == <<program, serverVars, clientVars>>

\* ------------------------------------------------------------------ helpers
Min(S) == CHOOSE m \in S : \A x \in S : m <= x

RECURSIVE SetToSeq(_)
SetToSeq(S) == IF S = {} THEN <<>> ELSE <<Min(S)>> \o SetToSeq(S \ {Min(S)})

Range(q) == {q[i] : i \in 1..Len(q)}

Msg(to, type, payload) == [to |-> to, type |-> type, payload |-> payload]

\* send(ws, message): written only when the transport is open
send(rs, to, type, payload) ==
    IF rs[to] = OPEN THEN SetToBag({Msg(to, type, payload)}) ELSE EmptyBag

\* ---------------------------------------------------------- SessionManager
getSession(m, sessionId) ==
    IF sessionId \in SessionIds THEN m.sessions[sessionId] ELSE NoRecord

\* faulty variant of setex: the participants already stored are kept
setex_merged(m, sessionId, session) ==
    LET stored == m.sessions[sessionId]
        kept == IF stored = NoRecord THEN <<>>
                ELSE SelectSeq(stored.participants,
                               LAMBDA p : \A i \in DOMAIN session.participants :
                                             session.participants[i] # p)
    IN  [m EXCEPT !.sessions[sessionId] =
                     [session EXCEPT !.participants = kept \o @],
                  !.recTtl[sessionId] = IF m.useRedis THEN SESSION_TTL ELSE @]

\* setex session:<id>: the record is stored with a full time to live (Redis only)
setex(m, sessionId, session) ==
    [m EXCEPT !.sessions[sessionId] = session,
              !.recTtl[sessionId] = IF m.useRedis THEN SESSION_TTL ELSE @]

\* sadd session:<id>:participants: a key that sadd creates carries no expiry
sadd(m, sessionId, userId) ==
    [m EXCEPT !.participants[sessionId] = @ \cup {userId}]

\* faulty variant of srem: the member is not taken out of the set
srem_forgotten(m, sessionId, userId) == m

\* srem: a set left empty is no key any more
srem(m, sessionId, userId) ==
    LET rest == m.participants[sessionId] \ {userId} IN
    [m EXCEPT !.participants[sessionId] = rest,
              !.setTtl[sessionId] = IF rest = {} THEN NoTTL ELSE @]

createSession(m, sessionId, hostUserId) ==
    LET session == [id |-> sessionId,
                    host |-> hostUserId,
                    participants |-> <<hostUserId>>]
    IN  sadd(setex(m, sessionId, session), sessionId, hostUserId)

\* precondition: getSession(m, sessionId) # NoRecord (else the call throws)
addParticipant(m, sessionId, userId) ==
    LET old == getSession(m, sessionId)
        session == [old EXCEPT !.participants = Append(@, userId)]
    IN  sadd(setex(m, sessionId, session), sessionId, userId)

deleteSession(m, sessionId) ==
    [m EXCEPT !.sessions[sessionId] = NoRecord,
              !.recTtl[sessionId] = NoTTL,
              !.participants[sessionId] = {},
              !.setTtl[sessionId] = NoTTL]

\* faulty variant of removeParticipant: the session ends when its host leaves
removeParticipant_hostEnds(m, sessionId, userId) ==
    LET old == getSession(m, sessionId) IN
    IF old = NoRecord THEN m
    ELSE LET session == [old EXCEPT !.participants =
                              SelectSeq(@, LAMBDA p : p # userId)]
         IN  IF Len(session.participants) = 0 \/ old.host = userId
             THEN deleteSession(m, sessionId)
             ELSE srem(setex(m, sessionId, session), sessionId, userId)

removeParticipant(m, sessionId, userId) ==
    LET old == getSession(m, sessionId) IN
    IF old = NoRecord THEN m
    ELSE LET session == [old EXCEPT !.participants =
                              SelectSeq(@, LAMBDA p : p # userId)]
         IN  IF Len(session.participants) = 0
             THEN deleteSession(m, sessionId)
             ELSE srem(setex(m, sessionId, session), sessionId, userId)

\* faulty variant of getParticipants: the record's array is read, not the set
getParticipants_fromRecord(m, sessionId) ==
    IF getSession(m, sessionId) = NoRecord THEN <<>>
    ELSE getSession(m, sessionId).participants

\* Array.from(Set) / smembers: every member once
getParticipants(m, sessionId) ==
    IF sessionId \in SessionIds THEN SetToSeq(m.participants[sessionId]) ELSE <<>>

\* expire on the keys that exist (Redis only)
refreshSession(m, sessionId) ==
    IF m.useRedis /\ sessionId \in SessionIds
    THEN [m EXCEPT
            !.recTtl[sessionId] =
                IF m.sessions[sessionId] # NoRecord THEN SESSION_TTL ELSE @,
            !.setTtl[sessionId] =
                IF m.participants[sessionId] # {} THEN SESSION_TTL ELSE @]
    ELSE m

\* TickStep seconds pass: Redis drops every key whose time to live has run out
Left(ttl) == IF ttl = NoTTL THEN NoTTL ELSE ttl - TickStep
Gone(ttl) == ttl # NoTTL /\ ttl - TickStep <= 0

elapse(m) ==
    [m EXCEPT
        !.sessions = [s \in SessionIds |->
            IF Gone(m.recTtl[s]) THEN NoRecord ELSE m.sessions[s]],
        !.recTtl = [s \in SessionIds |->
            IF Gone(m.recTtl[s]) THEN NoTTL ELSE Left(m.recTtl[s])],
        !.participants = [s \in SessionIds |->
            IF Gone(m.setTtl[s]) THEN {} ELSE m.participants[s]],
        !.setTtl = [s \in SessionIds |->
            IF Gone(m.setTtl[s]) THEN NoTTL ELSE Left(m.setTtl[s])]]

\* -------------------------------------------------------- WebSocketHandler
\* faulty variant of the broadcast loop: the excluded client is not skipped
RECURSIVE broadcastLoop_noExclude(_, _, _, _, _, _)
broadcastLoop_noExclude(participants, type, payload, excludeClientId, conns, rs) ==
    IF participants = <<>> THEN EmptyBag
    ELSE LET userId == Head(participants)
             rest == broadcastLoop_noExclude(Tail(participants), type, payload,
                                             excludeClientId, conns, rs)
         IN  IF userId \in conns /\ rs[userId] = OPEN
             THEN send(rs, userId, type, payload) (+) rest
             ELSE rest

RECURSIVE broadcastLoop(_, _, _, _, _, _)
broadcastLoop(participants, type, payload, excludeClientId, conns, rs) ==
    IF participants = <<>> THEN EmptyBag
    ELSE LET userId == Head(participants)
             rest == broadcastLoop(Tail(participants), type, payload,
                                   excludeClientId, conns, rs)
         IN  IF userId = excludeClientId THEN rest
             ELSE IF userId \in conns /\ rs[userId] = OPEN
                  THEN send(rs, userId, type, payload) (+) rest
                  ELSE rest

broadcastToSession(m, sessionId, type, payload, excludeClientId, conns, rs) ==
    broadcastLoop(getParticipants(m, sessionId), type, payload,
                  excludeClientId, conns, rs)

\* Date.now(): the model keeps no wall clock, a timestamp is an opaque value
DateNow == "Date.now()"

\* faulty variant of stamp: {sourceId: clientId, ...payload}, the payload wins
stamp_payloadWins(payload, clientId) ==
    [f \in DOMAIN payload \cup {"sourceId", "timestamp"} |->
        IF f = "timestamp" THEN DateNow
        ELSE IF f # "sourceId" THEN payload[f]
        ELSE IF f \in DOMAIN payload /\ payload[f] # NoClient THEN payload[f]
        ELSE clientId]

\* {...payload, sourceId: clientId, timestamp: Date.now()}
stamp(payload, clientId) ==
    [f \in DOMAIN payload \cup {"sourceId", "timestamp"} |->
        IF f = "sourceId" THEN clientId
        ELSE IF f = "timestamp" THEN DateNow
        ELSE payload[f]]

\* what the observer notes about the handler that ran
Op(op, clientId, sessionId, payload, ok) ==
    [op |-> op, clientId |-> clientId, sessionId |-> sessionId,
     payload |-> payload, ok |-> ok]

NoPayload == [none |-> TRUE]
Idle == last.op = "IDLE"
Api == program = "api" /\ Idle
Relay == program = "relay" /\ Idle

\* a transport whose messages the server is reading
Receiving(clientId) ==
    clientId \in connections /\ readyState[clientId] = OPEN

IsParticipant(m, sessionId, userId) ==
    userId \in Range(getParticipants(m, sessionId))

\* the observer's count of joins and leaves on a session: joins counts every
\* accepted join (the creating host first), fresh those by an identity that
\* was not a participant, leaves the leaves of a participant; expired notes
\* that a key of the session ran out of time
countJoin(sessionId, isFresh) ==
    [tally EXCEPT ![sessionId] =
        [@ EXCEPT !.joins = @ + 1,
                  !.fresh = @ + (IF isFresh THEN 1 ELSE 0)]]

countLeave(sessionId) ==
    [tally EXCEPT ![sessionId] = [@ EXCEPT !.leaves = @ + 1]]

RECURSIVE SumJoins(_)
SumJoins(S) ==
    IF S = {} THEN 0
    ELSE LET s == CHOOSE x \in S : TRUE IN tally[s].joins + SumJoins(S \ {s})

\* bound of the model: the run accepts MaxJoins joins
MayJoin == SumJoins(SessionIds) < MaxJoins

handleConnection(clientId) ==
    /\ Api
    /\ readyState[clientId] = "NEW"
    /\ \A c \in Clients : c < clientId => readyState[c] # "NEW"
    /\ readyState' = [readyState EXCEPT ![clientId] = OPEN]
    /\ connections' = connections \cup {clientId}
    /\ sent' = send(readyState', clientId, "CLIENT_ID", [clientId |-> clientId])
    /\ last' = Op("CONNECT", clientId, NoSession, NoPayload, TRUE)
    /\ UNCHANGED <<program, relay, sm, wsSessionId, nextSession, tally>>
    /\ UNCHANGED clientVars

handleCreateSession(clientId) ==
    /\ Api
    /\ Receiving(clientId)
    /\ nextSession < MaxSessions
    /\ MayJoin
    /\ LET sessionId == nextSession + 1
           m1 == createSession(sm, sessionId, clientId)
       IN  /\ sm' = m1
           /\ nextSession' = sessionId
           /\ wsSessionId' = [wsSessionId EXCEPT ![clientId] = sessionId]
           /\ sent' = send(readyState, clientId, "SESSION_CREATED",
                           [sessionId |-> sessionId])
           /\ last' = Op("CREATE_SESSION", clientId, sessionId, NoPayload, TRUE)
           /\ tally' = countJoin(sessionId, TRUE)
    /\ UNCHANGED <<program, relay, connections, readyState>>
    /\ UNCHANGED clientVars

\* faulty variant of handleJoinSession: ws.sessionId is set before addParticipant
handleJoinSession_attachesFirst(clientId, payload) ==
    /\ Api
    /\ Receiving(clientId)
    /\ LET sessionId == payload.sessionId IN
       IF getSession(sm, sessionId) = NoRecord
       THEN /\ sent' = send(readyState, clientId, "ERROR",
                            [message |-> "Session not found"])
            /\ last' = Op("JOIN_SESSION", clientId, wsSessionId[clientId],
                          payload, FALSE)
            /\ wsSessionId' = [wsSessionId EXCEPT ![clientId] = sessionId]
            /\ UNCHANGED <<program, relay, sm, tally>>
       ELSE /\ MayJoin
            /\ LET m1 == addParticipant(sm, sessionId, clientId)
                   session == getSession(m1, sessionId)
               IN  /\ sm' = refreshSession(m1, sessionId)
                   /\ wsSessionId' = [wsSessionId EXCEPT ![clientId] = sessionId]
                   /\ sent' =
                        broadcastToSession(m1, sessionId, "PARTICIPANT_JOINED",
                                           [userId |-> clientId], clientId,
                                           connections, readyState)
                        (+) send(readyState, clientId, "SESSION_JOINED",
                                 [sessionId |-> sessionId,
                                  participants |-> session.participants])
                   /\ last' = Op("JOIN_SESSION", clientId, wsSessionId[clientId],
                                 payload, TRUE)
                   /\ tally' = countJoin(sessionId,
                                         ~IsParticipant(sm, sessionId, clientId))
    /\ UNCHANGED <<program, relay, connections, readyState, nextSession>>
    /\ UNCHANGED clientVars

handleJoinSession(clientId, payload) ==
    /\ Api
    /\ Receiving(clientId)
    /\ LET sessionId == payload.sessionId IN
       IF getSession(sm, sessionId) = NoRecord
       THEN /\ sent' = send(readyState, clientId, "ERROR",
                            [message |-> "Session not found"])
            /\ last' = Op("JOIN_SESSION", clientId, wsSessionId[clientId],
                          payload, FALSE)
            /\ UNCHANGED <<program, relay, sm, wsSessionId, tally>>
       ELSE /\ MayJoin
            /\ LET m1 == addParticipant(sm, sessionId, clientId)
                   session == getSession(m1, sessionId)
               IN  /\ sm' = refreshSession(m1, sessionId)
                   /\ wsSessionId' = [wsSessionId EXCEPT ![clientId] = sessionId]
                   /\ sent' =
                        broadcastToSession(m1, sessionId, "PARTICIPANT_JOINED",
                                           [userId |-> clientId], clientId,
                                           connections, readyState)
                        (+) send(readyState, clientId, "SESSION_JOINED",
                                 [sessionId |-> sessionId,
                                  participants |-> session.participants])
                   /\ last' = Op("JOIN_SESSION", clientId, wsSessionId[clientId],
                                 payload, TRUE)
                   /\ tally' = countJoin(sessionId,
                                         ~IsParticipant(sm, sessionId, clientId))
    /\ UNCHANGED <<program, relay, connections, readyState, nextSession>>
    /\ UNCHANGED clientVars

handleLeaveSession(clientId, payload) ==
    /\ Api
    /\ Receiving(clientId)
    /\ LET sessionId == payload.sessionId
           m1 == removeParticipant(sm, sessionId, clientId)
       IN  /\ sm' = m1
           /\ sent' =
                broadcastToSession(m1, sessionId, "PARTICIPANT_LEFT",
                                   [userId |-> clientId], NoClient,
                                   connections, readyState)
                (+) send(readyState, clientId, "SESSION_LEFT",
                         [sessionId |-> sessionId])
           /\ tally' = IF IsParticipant(sm, sessionId, clientId)
                               /\ getSession(sm, sessionId) # NoRecord
                       THEN countLeave(sessionId) ELSE tally
    /\ wsSessionId' = [wsSessionId EXCEPT ![clientId] = NoSession]
    /\ last' = Op("LEAVE_SESSION", clientId, wsSessionId[clientId], payload, TRUE)
    /\ UNCHANGED <<program, relay, connections, readyState, nextSession>>
    /\ UNCHANGED clientVars

handleSyncEvent(clientId, payload) ==
    /\ Api
    /\ Receiving(clientId)
    /\ LET sessionId == wsSessionId[clientId] IN
       IF sessionId = NoSession
       THEN /\ sent' = send(readyState, clientId, "ERROR",
                            [message |-> "Not in a session"])
            /\ last' = Op("SYNC_EVENT", clientId, sessionId, payload, FALSE)
            /\ UNCHANGED sm
       ELSE /\ sent' = broadcastToSession(sm, sessionId, "SYNC_EVENT",
                                          stamp(payload, clientId), clientId,
                                          connections, readyState)
            /\ sm' = refreshSession(sm, sessionId)
            /\ last' = Op("SYNC_EVENT", clientId, sessionId, payload, TRUE)
    /\ UNCHANGED <<program, relay, connections, readyState, wsSessionId, nextSession, tally>>
    /\ UNCHANGED clientVars

\* faulty variant of findTarget: the target's session is not compared
findTarget_anySession(targetId, sessionId) ==
    {id \in connections : id = targetId}

\* Array.from(connections.entries()).find(id === targetId && sessionId matches)
findTarget(targetId, sessionId) ==
    {id \in connections : id = targetId /\ wsSessionId[id] = sessionId}

handleWebRTCSignal(clientId, payload) ==
    /\ Api
    /\ Receiving(clientId)
    /\ LET sessionId == wsSessionId[clientId] IN
       IF sessionId = NoSession
       THEN /\ sent' = send(readyState, clientId, "ERROR",
                            [message |-> "Not in a session"])
            /\ last' = Op("WEBRTC_SIGNAL", clientId, sessionId, payload, FALSE)
       ELSE /\ sent' =
                 LET targetWs == findTarget(payload.targetId, sessionId) IN
                 IF targetWs # {} /\ readyState[payload.targetId] = OPEN
                 THEN send(readyState, payload.targetId, "WEBRTC_SIGNAL",
                           [sourceId |-> clientId, signal |-> payload.signal])
                 ELSE EmptyBag
            /\ last' = Op("WEBRTC_SIGNAL", clientId, sessionId, payload, TRUE)
    /\ UNCHANGED <<program, relay, sm, connections, readyState, wsSessionId, nextSession, tally>>
    /\ UNCHANGED clientVars

handleHeartbeat(clientId) ==
    /\ Api
    /\ Receiving(clientId)
    /\ sent' = send(readyState, clientId, "HEARTBEAT_ACK", [timestamp |-> DateNow])
    /\ sm' = IF wsSessionId[clientId] # NoSession
             THEN refreshSession(sm, wsSessionId[clientId]) ELSE sm
    /\ last' = Op("HEARTBEAT", clientId, wsSessionId[clientId], NoPayload, TRUE)
    /\ UNCHANGED <<program, relay, connections, readyState, wsSessionId, nextSession, tally>>
    /\ UNCHANGED clientVars

\* faulty variant of handleMessage: the connection is dropped after the reply
handleMessage_closes(clientId, data) ==
    /\ Api
    /\ Receiving(clientId)
    /\ sent' = send(readyState, clientId, "ERROR", [message |-> data.error])
    /\ connections' = connections \ {clientId}
    /\ readyState' = [readyState EXCEPT ![clientId] = "CLOSED"]
    /\ last' = Op("MESSAGE", clientId, wsSessionId[clientId], data, FALSE)
    /\ UNCHANGED <<program, relay, sm, wsSessionId, nextSession, tally>>
    /\ UNCHANGED clientVars

\* ws.on('message') with data no handler takes: JSON.parse throws (the catch
\* replies error.message) or handleMessage falls to its default case
handleMessage(clientId, data) ==
    /\ Api
    /\ Receiving(clientId)
    /\ sent' = send(readyState, clientId, "ERROR", [message |-> data.error])
    /\ last' = Op("MESSAGE", clientId, wsSessionId[clientId], data, FALSE)
    /\ UNCHANGED <<program, relay, sm, connections, readyState, wsSessionId,
                   nextSession, tally>>
    /\ UNCHANGED clientVars

\* the peer starts the closing handshake: the transport is registered, not open
transportClosing(clientId) ==
    /\ Api
    /\ Receiving(clientId)
    /\ readyState' = [readyState EXCEPT ![clientId] = "CLOSING"]
    /\ UNCHANGED <<program, relay, sm, connections, wsSessionId, nextSession, tally, sent, last>>
    /\ UNCHANGED clientVars

\* ws.on('close'): the transport is closed when the handler runs
handleDisconnect(clientId) ==
    /\ Api
    /\ clientId \in connections
    /\ readyState[clientId] \in {OPEN, "CLOSING"}
    /\ readyState' = [readyState EXCEPT ![clientId] = "CLOSED"]
    /\ LET sessionId == wsSessionId[clientId] IN
       IF sessionId # NoSession
       THEN LET m1 == removeParticipant(sm, sessionId, clientId) IN
            /\ sm' = m1
            /\ sent' = broadcastToSession(m1, sessionId, "PARTICIPANT_LEFT",
                                          [userId |-> clientId], NoClient,
                                          connections, readyState')
            /\ tally' = IF IsParticipant(sm, sessionId, clientId)
                                /\ getSession(sm, sessionId) # NoRecord
                        THEN countLeave(sessionId) ELSE tally
       ELSE /\ sent' = EmptyBag
            /\ UNCHANGED <<program, relay, sm, tally>>
    /\ connections' = connections \ {clientId}
    /\ wsSessionId' = [wsSessionId EXCEPT ![clientId] = NoSession]
    /\ last' = Op("CLOSE", clientId, wsSessionId[clientId], NoPayload, TRUE)
    /\ UNCHANGED <<program, relay, nextSession>>
    /\ UNCHANGED clientVars

\* time passes on the durable backend (seen only through the keys' time to live)
tick ==
    /\ Api
    /\ sm.useRedis
    /\ sm' = elapse(sm)
    /\ sm' # sm
    /\ tally' = [s \in SessionIds |->
                    [tally[s] EXCEPT !.expired =
                        @ \/ Gone(sm.recTtl[s]) \/ Gone(sm.setTtl[s])]]
    /\ UNCHANGED <<program, relay, connections, readyState, wsSessionId, nextSession, sent, last>>
    /\ UNCHANGED clientVars

\* ------------------------------------------------------ stand-alone server
relay_getSession(sessionId) ==
    IF sessionId \in SessionIds THEN relay[sessionId] ELSE NoRecord

\* for (const [clientId, ws] of session.participants): every Map key once
relay_broadcastToSession(sessionId, type, payload, senderId, rs) ==
    IF relay_getSession(sessionId) = NoRecord THEN EmptyBag
    ELSE SetToBag({Msg(c, type, payload) :
            c \in {p \in relay[sessionId].participants :
                      p # senderId /\ rs[p] = OPEN}})

relay_connection(clientId) ==
    /\ Relay
    /\ readyState[clientId] = "NEW"
    /\ \A c \in Clients : c < clientId => readyState[c] # "NEW"
    /\ readyState' = [readyState EXCEPT ![clientId] = OPEN]
    /\ sent' = SetToBag({Msg(clientId, "CLIENT_ID", [clientId |-> clientId])})
    /\ last' = Op("CONNECT", clientId, NoSession, NoPayload, TRUE)
    /\ UNCHANGED <<program, relay, sm, connections, wsSessionId, nextSession, tally>>
    /\ UNCHANGED clientVars

relay_handleCreateSession(clientId) ==
    /\ Relay
    /\ readyState[clientId] = OPEN
    /\ nextSession < MaxSessions
    /\ LET sessionId == nextSession + 1 IN
       /\ relay' = [relay EXCEPT ![sessionId] =
                       [id |-> sessionId, host |-> clientId,
                        participants |-> {clientId}]]
       /\ nextSession' = sessionId
       /\ wsSessionId' = [wsSessionId EXCEPT ![clientId] = sessionId]
       /\ sent' = SetToBag({Msg(clientId, "SESSION_CREATED",
                                [sessionId |-> sessionId])})
       /\ last' = Op("CREATE_SESSION", clientId, sessionId, NoPayload, TRUE)
    /\ UNCHANGED <<program, sm, connections, readyState, tally>>
    /\ UNCHANGED clientVars

relay_handleJoinSession(clientId, payload) ==
    /\ Relay
    /\ readyState[clientId] = OPEN
    /\ LET sessionId == payload.sessionId IN
       IF relay_getSession(sessionId) = NoRecord
       THEN /\ sent' = SetToBag({Msg(clientId, "ERROR",
                                     [message |-> "Session not found"])})
            /\ last' = Op("JOIN_SESSION", clientId, wsSessionId[clientId],
                          payload, FALSE)
            /\ UNCHANGED <<relay, wsSessionId>>
       ELSE /\ relay' = [relay EXCEPT ![sessionId].participants = @ \cup {clientId}]
            /\ wsSessionId' = [wsSessionId EXCEPT ![clientId] = sessionId]
            /\ sent' = SetToBag({Msg(c, "JOINED", [sourceId |-> clientId]) :
                            c \in {p \in relay[sessionId].participants :
                                      p # clientId /\ readyState[p] = OPEN}})
                       (+) SetToBag({Msg(clientId, "SESSION_JOINED",
                                         [sessionId |-> sessionId])})
            /\ last' = Op("JOIN_SESSION", clientId, wsSessionId[clientId],
                          payload, TRUE)
    /\ UNCHANGED <<program, sm, connections, readyState, nextSession, tally>>
    /\ UNCHANGED clientVars

\* the event itself is broadcast: {...data.payload, sourceId, timestamp}
relay_handleSyncEvent(clientId, payload) ==
    /\ Relay
    /\ readyState[clientId] = OPEN
    /\ LET sessionId == wsSessionId[clientId] IN
       IF sessionId = NoSession
       THEN /\ sent' = SetToBag({Msg(clientId, "ERROR",
                                     [message |-> "Not in a session"])})
            /\ last' = Op("SYNC_EVENT", clientId, sessionId, payload, FALSE)
       ELSE /\ sent' = relay_broadcastToSession(sessionId, payload.eventType,
                           stamp(payload, clientId), clientId, readyState)
            /\ last' = Op("SYNC_EVENT", clientId, sessionId, payload, TRUE)
    /\ UNCHANGED <<program, relay, sm, connections, readyState, wsSessionId,
                   nextSession, tally>>
    /\ UNCHANGED clientVars

\* payload: {...payload, sourceId: clientId}
relay_signalMessage(payload, clientId) ==
    [f \in DOMAIN payload \cup {"sourceId"} |->
        IF f = "sourceId" THEN clientId ELSE payload[f]]

relay_handleSignal(clientId, payload) ==
    /\ Relay
    /\ readyState[clientId] = OPEN
    /\ LET sessionId == wsSessionId[clientId]
           targetId == payload.targetId
       IN  /\ sent' =
                IF sessionId = NoSession THEN EmptyBag    \* if (!sessionId) return
                ELSE IF targetId # NoClient
                THEN IF /\ relay_getSession(sessionId) # NoRecord
                        /\ targetId \in relay[sessionId].participants
                        /\ readyState[targetId] = OPEN
                     THEN SetToBag({Msg(targetId, "SIGNAL",
                                        relay_signalMessage(payload, clientId))})
                     ELSE EmptyBag
                ELSE relay_broadcastToSession(sessionId, "SIGNAL",
                         relay_signalMessage(payload, clientId), clientId,
                         readyState)
           /\ last' = Op("SIGNAL", clientId, sessionId, payload,
                         sessionId # NoSession)
    /\ UNCHANGED <<program, relay, sm, connections, readyState, wsSessionId,
                   nextSession, tally>>
    /\ UNCHANGED clientVars

\* the stand-alone server's catch ('Invalid message format') and default case
relay_message(clientId, data) ==
    /\ Relay
    /\ readyState[clientId] = OPEN
    /\ sent' = SetToBag({Msg(clientId, "ERROR",
                   [message |-> IF data.json THEN "Unknown message type"
                                ELSE "Invalid message format"])})
    /\ last' = Op("MESSAGE", clientId, wsSessionId[clientId], data, FALSE)
    /\ UNCHANGED <<program, relay, sm, connections, readyState, wsSessionId,
                   nextSession, tally>>
    /\ UNCHANGED clientVars

\* the first session (in creation order) that holds the client
relay_firstSessionOf(clientId) ==
    {s \in SessionIds :
        /\ relay[s] # NoRecord
        /\ clientId \in relay[s].participants
        /\ \A r \in SessionIds :
              (r < s /\ relay[r] # NoRecord) => clientId \notin relay[r].participants}

relay_handleClientDisconnect(clientId) ==
    /\ Relay
    /\ readyState[clientId] = OPEN
    /\ readyState' = [readyState EXCEPT ![clientId] = "CLOSED"]
    /\ IF relay_firstSessionOf(clientId) = {}
       THEN /\ sent' = EmptyBag
            /\ UNCHANGED relay
       ELSE LET sessionId == CHOOSE s \in relay_firstSessionOf(clientId) : TRUE
                rest == relay[sessionId].participants \ {clientId}
            IN  IF rest = {}
                THEN /\ relay' = [relay EXCEPT ![sessionId] = NoRecord]
                     /\ sent' = EmptyBag
                ELSE /\ relay' = [relay EXCEPT ![sessionId].participants = rest]
                     /\ sent' = SetToBag({Msg(c, "USER_LEFT", [userId |-> clientId]) :
                                     c \in {p \in rest : readyState'[p] = OPEN}})
    /\ last' = Op("CLOSE", clientId, wsSessionId[clientId], NoPayload, TRUE)
    /\ UNCHANGED <<program, sm, connections, wsSessionId, nextSession, tally>>
    /\ UNCHANGED clientVars

\* the written frames leave the process; the observer is ready for the next handler
drain ==
    /\ ~Idle
    /\ sent' = EmptyBag
    /\ last' = Op("IDLE", NoClient, NoSession, NoPayload, TRUE)
    /\ UNCHANGED <<program, relay, sm, connections, readyState, wsSessionId,
                   nextSession, tally>>
    /\ UNCHANGED clientVars

\* ------------------------------------- WebSocketHandler, await by await
\* With the durable backend every Redis command is awaited: the handler stops
\* until the reply arrives, and other handlers run meanwhile. Commands of the
\* one Redis connection are executed, and answered, in the order they were sent.
StepWise == program = "WebSocketHandler"

\* a handler in flight: the command whose reply it awaits (pc), its sessionId,
\* its local copy of the session record; n counts the connection's handlers;
\* read, wrote, joined and early are the observer's notes on the latest join
NoTask ==
    [kind |-> "none", pc |-> "done", sessionId |-> NoSession, session |-> NoRecord,
     n |-> 0, read |-> <<>>, wrote |-> FALSE, joined |-> FALSE, early |-> FALSE]

\* the handler whose command Redis executes next
head == Head(pending)
task == tasks[head.who][head.slot]

\* await this.redis.<command>(...): the handler waits behind the commands sent before
awaits(q, who, slot) == Append(q, [who |-> who, slot |-> slot])

\* the reply of the command at the head arrives and its handler goes on to pc
resume(pc, session) ==
    /\ tasks' = [tasks EXCEPT ![head.who][head.slot] =
                    [@ EXCEPT !.pc = pc, !.session = session]]
    /\ pending' = IF pc = "done" THEN Tail(pending)
                  ELSE awaits(Tail(pending), head.who, head.slot)

Replying(pc) == StepWise /\ pending # <<>> /\ task.pc = pc

\* session.participants.push(userId)
push(session, userId) == [session EXCEPT !.participants = Append(@, userId)]

\* a filter that also drops the identities that have no registry entry
filter_registered(session, userId) ==
    [session EXCEPT !.participants =
        SelectSeq(@, LAMBDA p : p # userId /\ p \in connections)]

\* session.participants.filter(p => p !== userId)
filter(session, userId) ==
    [session EXCEPT !.participants = SelectSeq(@, LAMBDA p : p # userId)]

\* a message handler may start: the connection is read and has none in flight
MayHandle(clientId) ==
    /\ StepWise
    /\ Receiving(clientId)
    /\ tasks[clientId].msg.pc = "done"
    /\ tasks[clientId].msg.n < MaxHandlers

\* the handler of a message starts and runs up to its first await
started(clientId, kind, pc, sessionId, session) ==
    /\ tasks' = [tasks EXCEPT ![clientId].msg =
                    [NoTask EXCEPT !.kind = kind, !.pc = pc, !.sessionId = sessionId,
                                   !.session = session, !.n = tasks[clientId].msg.n + 1]]
    /\ pending' = awaits(pending, clientId, "msg")
    /\ sent' = EmptyBag
    /\ last' = Op(kind, clientId, sessionId, NoPayload, TRUE)

async_handleConnection(clientId) ==
    /\ StepWise
    /\ readyState[clientId] = "NEW"
    /\ \A c \in Clients : c < clientId => readyState[c] # "NEW"
    /\ readyState' = [readyState EXCEPT ![clientId] = OPEN]
    /\ connections' = connections \cup {clientId}
    /\ sent' = send(readyState', clientId, "CLIENT_ID", [clientId |-> clientId])
    /\ last' = Op("CONNECT", clientId, NoSession, NoPayload, TRUE)
    /\ UNCHANGED <<sm, wsSessionId, nextSession, pending, tasks, notAsync>>

\* handleCreateSession up to createSession's await this.redis.setex(...)
async_handleCreateSession(clientId) ==
    /\ MayHandle(clientId)
    /\ nextSession < MaxSessions
    /\ nextSession' = nextSession + 1
    /\ started(clientId, "create", "setex", nextSession + 1,
               [id |-> nextSession + 1, host |-> clientId,
                participants |-> <<clientId>>])
    /\ UNCHANGED <<sm, connections, readyState, wsSessionId, notAsync>>

\* handleJoinSession up to addParticipant's await this.getSession(sessionId)
async_handleJoinSession(clientId, payload) ==
    /\ MayHandle(clientId)
    /\ started(clientId, "join", "get", payload.sessionId, NoRecord)
    /\ UNCHANGED <<sm, connections, readyState, wsSessionId, nextSession, notAsync>>

\* handleLeaveSession up to removeParticipant's await this.getSession(sessionId)
async_handleLeaveSession(clientId, payload) ==
    /\ MayHandle(clientId)
    /\ started(clientId, "leave", "get", payload.sessionId, NoRecord)
    /\ UNCHANGED <<sm, connections, readyState, wsSessionId, nextSession, notAsync>>

\* this.connections.get(clientId)?.sessionId
sessionOf(clientId) ==
    IF clientId \in connections THEN wsSessionId[clientId] ELSE NoSession

\* ws.on('close'): handleDisconnect up to removeParticipant's first await, or
\* to its end when the connection is attached to no session
async_handleDisconnect(clientId) ==
    /\ StepWise
    /\ Receiving(clientId)
    /\ readyState' = [readyState EXCEPT ![clientId] = "CLOSED"]
    /\ LET sessionId == sessionOf(clientId)
           waiting == /\ tasks[clientId].msg.kind = "join"
                      /\ tasks[clientId].msg.pc \in {"get", "setex", "sadd"}
           noted == [tasks EXCEPT ![clientId].msg.early = @ \/ waiting]
       IN  /\ last' = Op("CLOSE", clientId, sessionId, NoPayload, TRUE)
           /\ IF sessionId # NoSession
              THEN /\ tasks' = [noted EXCEPT ![clientId].close =
                                   [NoTask EXCEPT !.kind = "close", !.pc = "get",
                                                  !.sessionId = sessionId]]
                   /\ pending' = awaits(pending, clientId, "close")
                   /\ UNCHANGED connections
              ELSE /\ tasks' = noted
                   /\ connections' = connections \ {clientId}
                   /\ UNCHANGED pending
    /\ sent' = EmptyBag
    /\ UNCHANGED <<sm, wsSessionId, nextSession, notAsync>>

\* the reply of redis.get in getSession: addParticipant throws without a
\* record (the handler's catch replies ERROR), removeParticipant returns
redis_get ==
    /\ Replying("get")
    /\ LET session == getSession(sm, task.sessionId) IN
       IF task.kind = "join"
       THEN IF session = NoRecord
            THEN /\ resume("done", NoRecord)
                 /\ sent' = send(readyState, head.who, "ERROR",
                                 [message |-> "Session not found"])
                 /\ last' = Op("get", head.who, task.sessionId, NoPayload, FALSE)
            ELSE /\ tasks' = [tasks EXCEPT ![head.who][head.slot] =
                                 [@ EXCEPT !.pc = "setex",
                                           !.session = push(session, head.who),
                                           !.read = session.participants]]
                 /\ pending' = awaits(Tail(pending), head.who, head.slot)
                 /\ sent' = EmptyBag
                 /\ last' = Op("get", head.who, task.sessionId, NoPayload, TRUE)
       ELSE /\ IF session = NoRecord THEN resume("smembers", NoRecord)
               ELSE IF Len(filter(session, head.who).participants) = 0
                    THEN resume("del", NoRecord)
                    ELSE resume("setex", filter(session, head.who))
            /\ sent' = EmptyBag
            /\ last' = Op("get", head.who, task.sessionId, NoPayload, TRUE)
    /\ UNCHANGED <<sm, connections, readyState, wsSessionId, nextSession, notAsync>>

\* the reply of redis.setex: the handler's copy of the record is now stored
redis_setex ==
    /\ Replying("setex")
    /\ sm' = setex(sm, task.sessionId, task.session)
    /\ tasks' = [tasks EXCEPT ![head.who][head.slot] =
                    [@ EXCEPT !.pc = IF task.kind \in {"create", "join"}
                                     THEN "sadd" ELSE "srem",
                              !.wrote = task.kind = "join"]]
    /\ pending' = awaits(Tail(pending), head.who, head.slot)
    /\ sent' = EmptyBag
    /\ last' = Op("setex", head.who, task.sessionId, NoPayload, TRUE)
    /\ UNCHANGED <<connections, readyState, wsSessionId, nextSession, notAsync>>

\* the reply of redis.sadd: createSession / addParticipant return, the handler
\* sets ws.sessionId; create replies, join goes on to broadcastToSession
redis_sadd ==
    /\ Replying("sadd")
    /\ sm' = sadd(sm, task.sessionId, head.who)
    /\ wsSessionId' = [wsSessionId EXCEPT ![head.who] = task.sessionId]
    /\ IF task.kind = "create"
       THEN /\ resume("done", task.session)
            /\ sent' = send(readyState, head.who, "SESSION_CREATED",
                            [sessionId |-> task.sessionId])
       ELSE /\ tasks' = [tasks EXCEPT ![head.who][head.slot] =
                            [@ EXCEPT !.pc = "smembers", !.joined = TRUE]]
            /\ pending' = awaits(Tail(pending), head.who, head.slot)
            /\ sent' = EmptyBag
    /\ last' = Op("sadd", head.who, task.sessionId, NoPayload, TRUE)
    /\ UNCHANGED <<connections, readyState, nextSession, notAsync>>

\* the reply of redis.srem: removeParticipant returns, on to broadcastToSession
redis_srem ==
    /\ Replying("srem")
    /\ sm' = srem(sm, task.sessionId, head.who)
    /\ resume("smembers", task.session)
    /\ sent' = EmptyBag
    /\ last' = Op("srem", head.who, task.sessionId, NoPayload, TRUE)
    /\ UNCHANGED <<connections, readyState, wsSessionId, nextSession, notAsync>>

\* deleteSession: the reply of redis.del session:<id>, then that of
\* redis.del session:<id>:participants
redis_del ==
    /\ StepWise
    /\ pending # <<>>
    /\ task.pc \in {"del", "del2"}
    /\ IF task.pc = "del"
       THEN /\ sm' = [sm EXCEPT !.sessions[task.sessionId] = NoRecord,
                                !.recTtl[task.sessionId] = NoTTL]
            /\ resume("del2", NoRecord)
       ELSE /\ sm' = [sm EXCEPT !.participants[task.sessionId] = {},
                                !.setTtl[task.sessionId] = NoTTL]
            /\ resume("smembers", NoRecord)
    /\ sent' = EmptyBag
    /\ last' = Op("del", head.who, task.sessionId, NoPayload, TRUE)
    /\ UNCHANGED <<connections, readyState, wsSessionId, nextSession, notAsync>>

\* the reply of redis.smembers in broadcastToSession: the frames are written;
\* join replies SESSION_JOINED and goes on to refreshSession, leave replies
\* SESSION_LEFT and detaches, the close handler leaves the registry
redis_smembers ==
    /\ Replying("smembers")
    /\ LET participants == getParticipants(sm, task.sessionId) IN
       CASE task.kind = "join" ->
              /\ sent' = broadcastLoop(participants, "PARTICIPANT_JOINED",
                                       [userId |-> head.who], head.who,
                                       connections, readyState)
                         (+) send(readyState, head.who, "SESSION_JOINED",
                                  [sessionId |-> task.sessionId,
                                   participants |-> task.session.participants])
              /\ resume("expire", task.session)
              /\ UNCHANGED <<connections, wsSessionId>>
         [] task.kind = "leave" ->
              /\ sent' = broadcastLoop(participants, "PARTICIPANT_LEFT",
                                       [userId |-> head.who], NoClient,
                                       connections, readyState)
                         (+) send(readyState, head.who, "SESSION_LEFT",
                                  [sessionId |-> task.sessionId])
              /\ wsSessionId' = [wsSessionId EXCEPT ![head.who] = NoSession]
              /\ resume("done", NoRecord)
              /\ UNCHANGED connections
         [] OTHER ->
              /\ sent' = broadcastLoop(participants, "PARTICIPANT_LEFT",
                                       [userId |-> head.who], NoClient,
                                       connections, readyState)
              /\ connections' = connections \ {head.who}
              /\ resume("done", NoRecord)
              /\ UNCHANGED wsSessionId
    /\ last' = Op("smembers", head.who, task.sessionId, NoPayload, TRUE)
    /\ UNCHANGED <<sm, readyState, nextSession, notAsync>>

\* refreshSession: the reply of redis.expire session:<id>, then that of
\* redis.expire session:<id>:participants
redis_expire ==
    /\ StepWise
    /\ pending # <<>>
    /\ task.pc \in {"expire", "expire2"}
    /\ IF task.pc = "expire"
       THEN /\ sm' = [sm EXCEPT !.recTtl[task.sessionId] =
                         IF sm.sessions[task.sessionId] # NoRecord
                         THEN SESSION_TTL ELSE @]
            /\ resume("expire2", task.session)
       ELSE /\ sm' = [sm EXCEPT !.setTtl[task.sessionId] =
                         IF sm.participants[task.sessionId] # {}
                         THEN SESSION_TTL ELSE @]
            /\ resume("done", task.session)
    /\ sent' = EmptyBag
    /\ last' = Op("expire", head.who, task.sessionId, NoPayload, TRUE)
    /\ UNCHANGED <<connections, readyState, wsSessionId, nextSession, notAsync>>

\* ---------------------------------------------------------- client engines
Sockets == 1..MaxSockets

RECURSIVE Pow2(_)
Pow2(n) == IF n = 0 THEN 1 ELSE 2 * Pow2(n - 1)

WebSocketClient == program = "WebSocketClient"
RealSyncEngine == program = "RealSyncEngine"

\* new WebSocket(url): the next transport
CanOpen == \E s \in Sockets : sockets[s] = "NONE"
newSocket(socks) == Min({s \in Sockets : socks[s] = "NONE"})

\* what the observer notes about the client handler that ran
noted(op, socket, emit) ==
    [rc EXCEPT !.op = op, !.socket = socket, !.emit = emit]

\* the observer's account of a timer that attemptReconnect / handleDisconnect set
scheduled(r, delay) ==
    IF delay = NoDelay THEN [r EXCEPT !.terminal = TRUE]
    ELSE [r EXCEPT !.scheduled = @ + 1, !.delays = Append(@, delay)]

\* ------------------------------------------------- WebSocketClient (SDK)
\* connect(): nothing when the transport is open or a connect is in progress
wsc_connect(c, socks) ==
    IF c.ws # NoSocket /\ socks[c.ws] = OPEN THEN [wsc |-> c, sockets |-> socks]
    ELSE IF c.isConnecting THEN [wsc |-> c, sockets |-> socks]
    ELSE LET s == newSocket(socks) IN
         [wsc |-> [c EXCEPT !.ws = s, !.isConnecting = TRUE],
          sockets |-> [socks EXCEPT ![s] = "CONNECTING"]]

\* reconnectDelay * Math.pow(2, reconnectAttempts - 1)
wsc_delay(reconnectAttempts) == reconnectDelay * Pow2(reconnectAttempts - 1)

\* Math.min(1000 * 2 ** this.reconnectAttempts, 10000)
rse_delay(reconnectAttempts) ==
    IF 1000 * Pow2(reconnectAttempts) < MaxReconnectDelay
    THEN 1000 * Pow2(reconnectAttempts) ELSE MaxReconnectDelay

\* every delay a reconnect timer can carry
Delays ==
    {wsc_delay(n) : n \in 1..maxReconnectAttempts}
        \cup {rse_delay(n) : n \in 1..maxReconnectAttempts}

\* attemptReconnect(): the counter, the delay of the timer it sets, what it emits
wsc_attemptReconnect(c) ==
    IF c.reconnectAttempts >= maxReconnectAttempts
    THEN [wsc |-> c, delay |-> NoDelay, emit |-> <<"ws:reconnectFailed">>]
    ELSE [wsc |-> [c EXCEPT !.reconnectAttempts = @ + 1],
          delay |-> wsc_delay(c.reconnectAttempts + 1),
          emit |-> <<>>]

\* the SDK's caller invokes connect()
wsc_callerConnect ==
    /\ WebSocketClient
    /\ rc.calls < MaxConnectCalls
    /\ CanOpen
    /\ LET r == wsc_connect(wsc, sockets) IN
       /\ wsc' = r.wsc
       /\ sockets' = r.sockets
       /\ rc' = [noted("connect", r.wsc.ws, <<>>) EXCEPT
                    !.calls = @ + 1, !.terminal = FALSE, !.manual = FALSE]
    /\ UNCHANGED <<notReconnect, timers>>

\* the setTimeout callback of attemptReconnect: this.connect()
wsc_timeout(delay) ==
    /\ WebSocketClient
    /\ delay \in BagToSet(timers)
    /\ CanOpen
    /\ timers' = timers (-) SetToBag({delay})
    /\ LET r == wsc_connect(wsc, sockets) IN
       /\ wsc' = r.wsc
       /\ sockets' = r.sockets
       /\ rc' = noted("timer", r.wsc.ws, <<>>)
    /\ UNCHANGED notReconnect

wsc_onopen(s) ==
    /\ WebSocketClient
    /\ sockets[s] = "CONNECTING"
    /\ sockets' = [sockets EXCEPT ![s] = OPEN]
    /\ wsc' = [wsc EXCEPT !.reconnectAttempts = 0, !.isConnecting = FALSE]
    /\ rc' = [noted("open", s, <<"ws:connected">>) EXCEPT
                 !.scheduled = 0, !.delays = <<>>]
    /\ UNCHANGED <<notReconnect, timers>>

\* this.ws.onclose: ws:disconnected, isConnecting = false, attemptReconnect()
wsc_closed(s, emit) ==
    /\ sockets' = [sockets EXCEPT ![s] = "CLOSED"]
    /\ LET r == wsc_attemptReconnect([wsc EXCEPT !.isConnecting = FALSE]) IN
       /\ wsc' = r.wsc
       /\ timers' = IF r.delay = NoDelay THEN timers
                    ELSE timers (+) SetToBag({r.delay})
       /\ rc' = scheduled(noted("close", s, emit \o <<"ws:disconnected">> \o r.emit),
                          r.delay)
    /\ UNCHANGED notReconnect

\* the transport fails: the browser fires error and then close in one task, so
\* onerror (ws:error, isConnecting = false) and onclose run back to back
wsc_onerror(s) ==
    /\ WebSocketClient
    /\ sockets[s] \in {"CONNECTING", OPEN}
    /\ wsc_closed(s, <<"ws:error">>)

\* the transport is closed by the server, or after this.ws.close()
wsc_onclose(s) ==
    /\ WebSocketClient
    /\ sockets[s] \in {OPEN, "CLOSING"}
    /\ wsc_closed(s, <<>>)

\* disconnect(): this.ws.close(); this.ws = null
wsc_disconnect ==
    /\ WebSocketClient
    /\ wsc.ws # NoSocket
    /\ sockets' = [sockets EXCEPT ![wsc.ws] =
                      IF @ \in {"CONNECTING", OPEN} THEN "CLOSING" ELSE @]
    /\ wsc' = [wsc EXCEPT !.ws = NoSocket]
    /\ rc' = [noted("disconnect", wsc.ws, <<>>) EXCEPT !.manual = TRUE]
    /\ UNCHANGED <<notReconnect, timers>>

\* ------------------------------------------------- RealSyncEngine (demo)
\* connect(): this.socket = new WebSocket(wsUrl)
rse_connect(c, socks) ==
    LET s == newSocket(socks) IN
    [wsc |-> [c EXCEPT !.ws = s], sockets |-> [socks EXCEPT ![s] = "CONNECTING"]]

\* handleDisconnect(): the counter and the delay of the timer it sets
rse_handleDisconnect(c) ==
    IF c.reconnectAttempts < maxReconnectAttempts
    THEN [wsc |-> [c EXCEPT !.reconnectAttempts = @ + 1],
          delay |-> rse_delay(c.reconnectAttempts + 1)]
    ELSE [wsc |-> c, delay |-> NoDelay]

rse_timeout(delay) ==
    /\ RealSyncEngine
    /\ delay \in BagToSet(timers)
    /\ CanOpen
    /\ timers' = timers (-) SetToBag({delay})
    /\ LET r == rse_connect(wsc, sockets) IN
       /\ wsc' = r.wsc
       /\ sockets' = r.sockets
       /\ rc' = noted("timer", r.wsc.ws, <<>>)
    /\ UNCHANGED notReconnect

rse_onopen(s) ==
    /\ RealSyncEngine
    /\ sockets[s] = "CONNECTING"
    /\ sockets' = [sockets EXCEPT ![s] = OPEN]
    /\ wsc' = [wsc EXCEPT !.reconnectAttempts = 0]
    /\ rc' = [noted("open", s, <<>>) EXCEPT !.scheduled = 0, !.delays = <<>>]
    /\ UNCHANGED <<notReconnect, timers>>

\* this.socket.onclose: handleDisconnect()
rse_closed(s) ==
    /\ sockets' = [sockets EXCEPT ![s] = "CLOSED"]
    /\ LET r == rse_handleDisconnect(wsc) IN
       /\ wsc' = r.wsc
       /\ timers' = IF r.delay = NoDelay THEN timers
                    ELSE timers (+) SetToBag({r.delay})
       /\ rc' = scheduled(noted("close", s, <<>>), r.delay)
    /\ UNCHANGED notReconnect

\* the transport fails: onerror only logs, onclose follows in the same task
rse_onerror(s) ==
    /\ RealSyncEngine
    /\ sockets[s] \in {"CONNECTING", OPEN}
    /\ rse_closed(s)

\* the server closes the transport
rse_onclose(s) ==
    /\ RealSyncEngine
    /\ sockets[s] = OPEN
    /\ rse_closed(s)

\* ------------------------------------------------------------ EventEmitter
Topics == {"ws:sessionCreated", "ws:sessionJoined", "ws:sessionLeft", "ws:error",
           "ws:syncEvent", "sync"}
CallIds == 1..MaxCalls
NoPromise == [kind |-> "none", state |-> "none", by |-> "", first |-> "", timer |-> FALSE,
              sessionId |-> NoSession, cleared |-> FALSE]

\* a registered function: the closure (id), whether once() wrapped it, whether
\* the callback throws, and the SessionManager call it settles (if any)
Listener(id, once, throws, call, settles) ==
    [id |-> id, once |-> once, throws |-> throws, call |-> call, settles |-> settles]

\* on(event, callback): this.events.get(event).push(callback)
on(ev, topic, l) == [ev EXCEPT ![topic] = Append(@, l)]

\* off(event, callback): splice at indexOf(callback); an empty array is deleted
off(ev, topic, id) ==
    LET callbacks == ev[topic]
        at == {i \in DOMAIN callbacks : callbacks[i].id = id}
    IN  IF at = {} THEN ev
        ELSE [ev EXCEPT ![topic] =
                 SubSeq(callbacks, 1, Min(at) - 1)
                     \o SubSeq(callbacks, Min(at) + 1, Len(callbacks))]

\* callbacks.forEach(callback => { try { callback(...args) } catch {} }) on the
\* live array: index k is visited while k < the length at the start and the
\* array still has an element there. A once() wrapper calls the callback and
\* then off(event, onceWrapper), unless the callback threw.
RECURSIVE forEach(_, _, _, _, _)
forEach(ev, topic, k, length, invoked) ==
    IF k > length \/ k > Len(ev[topic])
    THEN [events |-> ev, invoked |-> invoked, propagated |-> FALSE]
    ELSE LET l == ev[topic][k]
             after == IF l.once /\ ~l.throws THEN off(ev, topic, l.id) ELSE ev
         IN  forEach(after, topic, k + 1, length, Append(invoked, l))

\* emit(event, ...args)
emit(ev, topic) == forEach(ev, topic, 1, Len(ev[topic]), <<>>)

\* RealSyncEngine.notify / SyncEngine.notify: this.listeners.forEach with try/catch
notify(ev) == emit(ev, "sync")

EventEmitter == program = "EventEmitter"
\* the two engines keep their subscribers the same way
SyncEngine == program \in {"SyncEngine", "RealSyncEngine"}

\* the observer's note of a call of the emitter
called(op, topic, before, invoked) ==
    [em EXCEPT !.op = op, !.topic = topic, !.before = before, !.invoked = invoked]

\* events.on(topic, callback) and events.once(topic, callback) by the SDK's user
EventEmitter_on(topic, once, throws) ==
    /\ EventEmitter
    /\ em.listeners < MaxListeners
    /\ events' = on(events, topic,
                    Listener(em.listeners + 1, once, throws, NoCall, "none"))
    /\ em' = [called(IF once THEN "once" ELSE "on", topic, events[topic], <<>>)
                 EXCEPT !.listeners = @ + 1]
    /\ UNCHANGED notEmitter

EventEmitter_off(topic, id) ==
    /\ EventEmitter
    /\ \E i \in DOMAIN events[topic] : events[topic][i].id = id
    /\ events' = off(events, topic, id)
    /\ em' = called("off", topic, events[topic], <<>>)
    /\ UNCHANGED notEmitter

EventEmitter_emit(topic) ==
    /\ EventEmitter
    /\ LET r == emit(events, topic) IN
       /\ events' = r.events
       /\ em' = [called("emit", topic, events[topic], r.invoked)
                    EXCEPT !.propagated = r.propagated]
    /\ UNCHANGED notEmitter

\* subscribe(callback): this.listeners.push(callback)
SyncEngine_subscribe(throws) ==
    /\ SyncEngine
    /\ em.listeners < MaxListeners
    /\ events' = on(events, "sync",
                    Listener(em.listeners + 1, FALSE, throws, NoCall, "none"))
    /\ em' = [called("subscribe", "sync", events["sync"], <<>>)
                 EXCEPT !.listeners = @ + 1]
    /\ UNCHANGED notEmitter

\* the function subscribe returned: this.listeners.filter(l => l !== callback)
SyncEngine_unsubscribe(id) ==
    /\ SyncEngine
    /\ \E i \in DOMAIN events["sync"] : events["sync"][i].id = id
    /\ events' = [events EXCEPT !["sync"] = SelectSeq(@, LAMBDA l : l.id # id)]
    /\ em' = called("unsubscribe", "sync", events["sync"], <<>>)
    /\ UNCHANGED notEmitter

SyncEngine_notify ==
    /\ SyncEngine
    /\ LET r == notify(events) IN
       /\ events' = r.events
       /\ em' = [called("emit", "sync", events["sync"], r.invoked)
                    EXCEPT !.propagated = r.propagated]
    /\ UNCHANGED notEmitter

\* ---------------------------------------------- SessionManager of the SDK
ShopWithFriends == program = "ShopWithFriends"

\* once(event, callback): on(event, onceWrapper)
once(ev, topic, call, settles) ==
    on(ev, topic, Listener(<<call, topic>>, TRUE, FALSE, call, settles))

\* the topic of the reply a call waits for
SuccessTopic(kind) ==
    CASE kind = "create" -> "ws:sessionCreated"
      [] kind = "join" -> "ws:sessionJoined"
      [] kind = "leave" -> "ws:sessionLeft"
      [] OTHER -> ""

\* WebSocketClient.handleMessage: the topic emitted for a message of the server
TopicOf(type) ==
    CASE type = "SESSION_CREATED" -> "ws:sessionCreated"
      [] type = "SESSION_JOINED" -> "ws:sessionJoined"
      [] type = "SESSION_LEFT" -> "ws:sessionLeft"
      [] type = "ERROR" -> "ws:error"

\* what the server may answer to a command
Answers(kind) ==
    CASE kind = "create" -> {"SESSION_CREATED", "ERROR"}
      [] kind = "join" -> {"SESSION_JOINED", "ERROR"}
      [] kind = "leave" -> {"SESSION_LEFT", "ERROR"}

\* the promise a call returns: new Promise with setTimeout
Promise(kind, sessionId) ==
    [kind |-> kind, state |-> "pending", by |-> "", first |-> "", timer |-> TRUE,
     sessionId |-> sessionId, cleared |-> FALSE]

\* resolve / reject: only the first settlement of a promise counts
settle(c, outcome, by) ==
    IF c.state = "pending" THEN [c EXCEPT !.state = outcome, !.by = by] ELSE c

\* the code after the await in createSession, joinSession and leaveSession
continuation(c, cur, payloadSession) ==
    CASE c.kind = "create" -> payloadSession
      [] c.kind = "join" -> c.sessionId
      [] c.kind = "leave" -> NoSession
      [] OTHER -> cur

\* the bodies of the once() callbacks that an emit invoked, in order:
\* clearTimeout(timeout), then resolve(data) or reject(error)
RECURSIVE run(_, _, _, _, _, _)
run(invoked, i, cs, cur, by, payloadSession) ==
    IF i > Len(invoked) THEN [calls |-> cs, currentSessionId |-> cur]
    ELSE LET l == invoked[i] IN
         IF l.call = NoCall THEN run(invoked, i + 1, cs, cur, by, payloadSession)
         ELSE LET c == cs[l.call]
                  resolves == c.state = "pending" /\ l.settles = "resolved"
                  d == [settle(c, l.settles, by) EXCEPT
                           !.timer = FALSE,
                           !.cleared = @ \/ (resolves /\ c.kind = "leave")]
              IN  run(invoked, i + 1, [cs EXCEPT ![l.call] = d],
                      IF resolves THEN continuation(c, cur, payloadSession) ELSE cur,
                      by, payloadSession)

\* observer: what happened first for each call that waits for the topic
fired(cs, topic) ==
    [k \in CallIds |->
        LET c == cs[k] IN
        IF c.kind = "none" \/ c.first # "" THEN c
        ELSE IF topic = SuccessTopic(c.kind) THEN [c EXCEPT !.first = "success"]
        ELSE IF topic = "ws:error" /\ c.kind \in {"create", "join"}
             THEN [c EXCEPT !.first = "error"]
        ELSE c]

\* the server's side of a reply: ws.sessionId of the connection after the
\* handler that sent SESSION_CREATED, SESSION_JOINED or SESSION_LEFT; a handler
\* that answers ERROR leaves it as it was
attach(topic, sessionId, payloadSession) ==
    CASE topic \in {"ws:sessionCreated", "ws:sessionJoined"} -> payloadSession
      [] topic = "ws:sessionLeft" -> NoSession
      [] OTHER -> sessionId

\* this.events.emit(topic, ...) in the SDK: the emitter, then the callbacks' effects
sdk_emit(topic, payloadSession) ==
    LET r == emit(events, topic)
        s == run(r.invoked, 1, fired(calls, topic), sdk.currentSessionId,
                 IF topic = "ws:error" THEN "error" ELSE "success", payloadSession)
    IN  /\ events' = r.events
        /\ em' = [called("emit", topic, events[topic], r.invoked)
                     EXCEPT !.propagated = r.propagated]
        /\ calls' = s.calls
        /\ sdk' = [sdk EXCEPT !.currentSessionId = s.currentSessionId,
                              !.attached = attach(topic, @, payloadSession)]

\* the next call of the SDK's user
NextCall == Min({k \in CallIds : calls[k].kind = "none"})
MayCall == ShopWithFriends /\ \E k \in CallIds : calls[k].kind = "none"

\* ws.send(message): dropped unless the transport is open
ws_send(kind, call, sessionId) ==
    IF sdk.connected
    THEN Append(replies, [kind |-> kind, call |-> call, sessionId |-> sessionId])
    ELSE replies

\* createSession(): SessionManager.create
sdk_createSession ==
    /\ MayCall
    /\ calls' = [calls EXCEPT ![NextCall] = Promise("create", NoSession)]
    /\ events' = once(once(events, "ws:sessionCreated", NextCall, "resolved"),
                      "ws:error", NextCall, "rejected")
    /\ replies' = ws_send("create", NextCall, NoSession)
    /\ UNCHANGED <<em, sdk, notSdk>>

\* joinSession(sessionId): SessionManager.join
sdk_joinSession(sessionId) ==
    /\ MayCall
    /\ calls' = [calls EXCEPT ![NextCall] = Promise("join", sessionId)]
    /\ events' = once(once(events, "ws:sessionJoined", NextCall, "resolved"),
                      "ws:error", NextCall, "rejected")
    /\ replies' = ws_send("join", NextCall, sessionId)
    /\ UNCHANGED <<em, sdk, notSdk>>

\* leaveSession(): SessionManager.leave(currentSessionId)
sdk_leaveSession ==
    /\ MayCall
    /\ sdk.currentSessionId # NoSession
    /\ calls' = [calls EXCEPT ![NextCall] = Promise("leave", sdk.currentSessionId)]
    /\ events' = once(events, "ws:sessionLeft", NextCall, "resolved")
    /\ replies' = ws_send("leave", NextCall, sdk.currentSessionId)
    /\ UNCHANGED <<em, sdk, notSdk>>

\* ws.onmessage: the server's answer to the oldest command arrives
sdk_onmessage(type, payloadSession) ==
    /\ ShopWithFriends
    /\ replies # <<>>
    /\ type \in Answers(Head(replies).kind)
    /\ payloadSession = IF Head(replies).kind = "create" THEN Head(replies).call
                        ELSE Head(replies).sessionId
    /\ replies' = Tail(replies)
    /\ sdk_emit(TopicOf(type), payloadSession)
    /\ UNCHANGED notSdk

\* the setTimeout callback of a call: reject (create, join) or resolve (leave)
sdk_timeout(k) ==
    /\ ShopWithFriends
    /\ calls[k].timer
    /\ LET c == calls[k]
           resolves == c.state = "pending" /\ c.kind = "leave"
           d == settle(c, IF c.kind = "leave" THEN "resolved" ELSE "rejected", "timeout")
       IN  /\ calls' = [calls EXCEPT ![k] = [d EXCEPT
                           !.timer = FALSE,
                           !.first = IF @ = "" THEN "timeout" ELSE @,
                           !.cleared = @ \/ resolves]]
           /\ sdk' = [sdk EXCEPT !.currentSessionId =
                         IF resolves THEN continuation(c, @, NoSession) ELSE @]
    /\ UNCHANGED <<events, em, replies, notSdk>>

\* ws.onerror and ws.onclose of the open transport: emit('ws:error', error);
\* the server's handleDisconnect drops the connection with its ws.sessionId
sdk_onerror ==
    /\ ShopWithFriends
    /\ sdk.connected
    /\ replies' = <<>>
    /\ LET r == emit(events, "ws:error")
           s == run(r.invoked, 1, fired(calls, "ws:error"), sdk.currentSessionId,
                    "error", NoSession)
       IN  /\ events' = r.events
           /\ em' = [called("emit", "ws:error", events["ws:error"], r.invoked)
                        EXCEPT !.propagated = r.propagated]
           /\ calls' = s.calls
           /\ sdk' = [currentSessionId |-> s.currentSessionId, connected |-> FALSE,
                       attached |-> NoSession]
    /\ UNCHANGED notSdk

\* ws.onopen after a reconnect: the server registers a connection with a new
\* clientId, attached to no session
sdk_onopen ==
    /\ ShopWithFriends
    /\ ~sdk.connected
    /\ sdk' = [sdk EXCEPT !.connected = TRUE]
    /\ UNCHANGED <<events, em, calls, replies, notSdk>>

\* ------------------------------------------------------------------ WebRTC
PeerIds == 1..MaxPeers
CandidateIds == 1..MaxCandidates

\* an RTCPeerConnection: signalingState, the state of remoteDescription (none,
\* being set by a pending setRemoteDescription, set), the candidates received
\* from the peer and what became of each, the descriptions sent to the peer
Peer(signaling, offered) ==
    [exists |-> TRUE, signaling |-> signaling, remote |-> "none",
     received |-> {}, applied |-> {}, queued |-> {}, lost |-> {},
     offered |-> offered, answered |-> FALSE,
     made |-> 1, offers |-> 0, answerTo |-> NoClient]
NoPeer == [Peer("stable", FALSE) EXCEPT !.exists = FALSE, !.made = 0]

WebRTCManager == program = "WebRTCManager"
RealSyncCall == program = "RealSyncEngine"

\* RealSyncEngine keeps one peerConnection, WebRTCManager one per peer
Pcs == IF RealSyncCall THEN {Min(PeerIds)} ELSE PeerIds

\* the key of the local stream in audioContexts, audioAnalyzers, statsIntervals
Local == 0

\* a faulty createPeerConnection: a new connection whether or not one exists
createPeerConnection_always(peers, targetId) ==
    [peers EXCEPT ![targetId] =
        [Peer("stable", FALSE) EXCEPT !.made = peers[targetId].made + 1]]

\* createPeerConnection(targetId), unless the connection exists
createPeerConnection(peers, targetId) ==
    IF peers[targetId].exists THEN peers
    ELSE [peers EXCEPT ![targetId] = Peer("stable", FALSE)]

\* createOffer, setLocalDescription(offer), sendSignal({type: 'offer'})
offer(peers, targetId) ==
    [peers EXCEPT ![targetId] =
        [@ EXCEPT !.signaling = "have-local-offer", !.offered = TRUE,
                  !.offers = @ + 1]]

\* setupAudioLevelMonitoring(peerId, stream): context, analyser, 100 ms interval
setupAudioLevelMonitoring(r, peerId) ==
    [r EXCEPT !.audioContexts = @ \cup {peerId},
              !.audioAnalyzers = @ \cup {peerId},
              !.statsIntervals = @ \cup {<<"audio", peerId>>}]

\* startStatsMonitoring(peerId, peer): the 2 s interval
startStatsMonitoring(r, peerId) ==
    [r EXCEPT !.statsIntervals = @ \cup {<<"stats", peerId>>}]

\* closePeerConnection(peerId): the peer's context, analyser and two intervals
closePeerConnection(r, peerId) ==
    [r EXCEPT !.audioContexts = @ \ {peerId},
              !.audioAnalyzers = @ \ {peerId},
              !.statsIntervals = @ \ {<<"stats", peerId>>, <<"audio", peerId>>}]

\* this.peers.forEach((peer, peerId) => this.closePeerConnection(peerId))
RECURSIVE closeAll(_, _)
closeAll(r, peerIds) ==
    IF peerIds = {} THEN r
    ELSE LET peerId == Min(peerIds)
         IN  closeAll(closePeerConnection(r, peerId), peerIds \ {peerId})

\* peer.addIceCandidate(candidate): rejected with InvalidStateError while
\* remoteDescription is null; behind a pending setRemoteDescription it waits on
\* the connection's operations chain
addIceCandidate(peer, candidate) ==
    LET got == [peer EXCEPT !.received = @ \cup {candidate}] IN
    CASE peer.remote = "none" -> [got EXCEPT !.lost = @ \cup {candidate}]
      [] peer.remote = "setting" -> [got EXCEPT !.queued = @ \cup {candidate}]
      [] OTHER -> [got EXCEPT !.applied = @ \cup {candidate}]

\* what the observer notes about the call of the manager that ran
ran(op, ok) == [rtc EXCEPT !.op = op, !.ok = ok]

\* WebRTCManager.startCall(): getUserMedia, granted or denied
wrtc_startCall(granted) ==
    /\ WebRTCManager
    /\ ~rtc.localStream
    /\ rtc' = IF granted
              THEN [setupAudioLevelMonitoring(ran("startCall", TRUE), Local)
                       EXCEPT !.localStream = TRUE]
              ELSE ran("startCall", FALSE)
    /\ UNCHANGED notRtc

\* WebRTCManager.connectToPeer(targetId)
wrtc_connectToPeer(targetId) ==
    /\ WebRTCManager
    /\ targetId \in rtc.known
    /\ rtc' = IF rtc.peers[targetId].exists THEN ran("connectToPeer", TRUE)
              ELSE [startStatsMonitoring(ran("connectToPeer", TRUE), targetId)
                       EXCEPT
                       !.peers = offer(createPeerConnection(@, targetId), targetId)]
    /\ UNCHANGED notRtc

\* RealSyncEngine.startCall(): setupLocalMedia, createPeerConnection, offer
rsc_startCall(granted) ==
    /\ RealSyncCall
    /\ ~rtc.localStream
    /\ rtc.peers[Min(PeerIds)].signaling = "stable"
    /\ rtc.peers[Min(PeerIds)].remote # "setting"
    /\ rtc' = IF granted
              THEN [ran("startCall", TRUE) EXCEPT
                       !.localStream = TRUE,
                       !.peers = offer(createPeerConnection(@, Min(PeerIds)),
                                       Min(PeerIds))]
              ELSE ran("startCall", FALSE)
    /\ UNCHANGED notRtc

\* the listener's first lines: a signal from a peer without a connection
\* creates the connection; WebRTCManager also starts its statistics poller
incoming(r, sourceId) ==
    LET made == [r EXCEPT !.peers = createPeerConnection(@, sourceId)] IN
    IF WebRTCManager /\ ~r.peers[sourceId].exists
    THEN startStatsMonitoring(made, sourceId)
    ELSE made

\* the ws:webrtcSignal listener / handleSignal, up to its first await, for a
\* description: setRemoteDescription is pending. A peer offers to a stable
\* connection and answers an offer it was sent.
rtc_description(sourceId, type) ==
    /\ WebRTCManager \/ RealSyncCall
    /\ sourceId \in Pcs
    /\ rtc.peers[sourceId].remote = "none"
    /\ rtc.peers[sourceId].signaling =
           (IF type = "answer" THEN "have-local-offer" ELSE "stable")
    /\ rtc' = [incoming(ran(type, TRUE), sourceId) EXCEPT
                  !.peers[sourceId].remote = "setting"]
    /\ UNCHANGED notRtc

\* setRemoteDescription resolves: the candidates that waited behind it are
\* added; for an offer, createAnswer, setLocalDescription, sendSignal(answer)
rtc_described(sourceId) ==
    /\ WebRTCManager \/ RealSyncCall
    /\ rtc.peers[sourceId].remote = "setting"
    /\ rtc' = [ran("described", TRUE) EXCEPT
                  !.peers[sourceId] =
                      [@ EXCEPT !.remote = "set",
                                !.applied = @ \cup rtc.peers[sourceId].queued,
                                !.queued = {},
                                !.answered = @ \/ rtc.peers[sourceId].signaling = "stable",
                                !.answerTo = IF rtc.peers[sourceId].signaling = "stable"
                                             THEN sourceId ELSE @,
                                !.signaling = "stable"]]
    /\ UNCHANGED notRtc

\* the listener / handleSignal for a candidate: a failed addIceCandidate is
\* caught and reported (webrtc:error signaling_error, console.error)
rtc_candidate(sourceId, candidate) ==
    /\ WebRTCManager \/ RealSyncCall
    /\ sourceId \in Pcs
    /\ candidate \notin rtc.peers[sourceId].received
    /\ LET peers == incoming(rtc, sourceId).peers
           peer == addIceCandidate(peers[sourceId], candidate)
       IN  rtc' = [incoming(ran("candidate", peer.lost = peers[sourceId].lost),
                            sourceId) EXCEPT
                      !.peers = [peers EXCEPT ![sourceId] = peer],
                      !.errors = @ + (IF peer.lost = peers[sourceId].lost THEN 0 ELSE 1)]
    /\ UNCHANGED notRtc

\* peer.ontrack for an audio track of the remote stream
rtc_ontrack(sourceId) ==
    /\ WebRTCManager
    /\ rtc.peers[sourceId].exists
    /\ rtc.peers[sourceId].remote = "set"
    /\ rtc' = setupAudioLevelMonitoring(ran("ontrack", TRUE), sourceId)
    /\ UNCHANGED notRtc

\* WebRTCManager.stopCall()
wrtc_stopCall ==
    /\ WebRTCManager
    /\ rtc.stops < MaxStops
    /\ rtc' = [closeAll(ran("stopCall", TRUE),
                        {p \in PeerIds : rtc.peers[p].exists}) EXCEPT
                  !.localStream = FALSE,
                  !.peers = [p \in PeerIds |-> NoPeer],
                  !.audioContexts = {},
                  !.audioAnalyzers = {},
                  !.stops = @ + 1]
    /\ UNCHANGED notRtc

\* ------------------------------------------------------ inbound payloads
Other(clientId) == (clientId % NumClients) + 1

JoinPayloads == {[sessionId |-> s] : s \in SessionIds}
LeavePayloads == {[sessionId |-> s] : s \in SessionIds}
SyncPayloads(clientId) ==
    {[eventType |-> "NAVIGATE", sourceId |-> x] : x \in {NoClient, Other(clientId)}}
SignalPayloads(clientId) ==
    {[targetId |-> t, signal |-> [type |-> k]] :
        t \in Clients \cup {NoClient}, k \in SignalTypes}
RelaySignalPayloads(clientId) ==
    {[targetId |-> t, type |-> k, sourceId |-> x] :
        t \in Clients \cup {NoClient}, k \in SignalTypes,
        x \in {NoClient, Other(clientId)}}

\* frames that are no JSON, and JSON whose type no case of the switch takes
InvalidData ==
    {[json |-> FALSE, type |-> "", error |-> "Unexpected token"],
     [json |-> TRUE, type |-> "PING", error |-> "Unknown message type: PING"]}

Next ==
    \/ \E c \in Clients : handleConnection(c)
    \/ \E c \in Clients : handleCreateSession(c)
    \/ \E c \in Clients, p \in JoinPayloads : handleJoinSession(c, p)
    \/ \E c \in Clients, p \in LeavePayloads : handleLeaveSession(c, p)
    \/ \E c \in Clients : \E p \in SyncPayloads(c) : handleSyncEvent(c, p)
    \/ \E c \in Clients : \E p \in SignalPayloads(c) : handleWebRTCSignal(c, p)
    \/ \E c \in Clients : handleHeartbeat(c)
    \/ \E c \in Clients, d \in InvalidData : handleMessage(c, d)
    \/ \E c \in Clients : transportClosing(c)
    \/ \E c \in Clients : handleDisconnect(c)
    \/ tick
    \/ \E c \in Clients : relay_connection(c)
    \/ \E c \in Clients : relay_handleCreateSession(c)
    \/ \E c \in Clients, p \in JoinPayloads : relay_handleJoinSession(c, p)
    \/ \E c \in Clients : \E p \in SyncPayloads(c) : relay_handleSyncEvent(c, p)
    \/ \E c \in Clients : \E p \in RelaySignalPayloads(c) : relay_handleSignal(c, p)
    \/ \E c \in Clients, d \in InvalidData : relay_message(c, d)
    \/ \E c \in Clients : relay_handleClientDisconnect(c)
    \/ drain

\* no reconnecting engine is modelled
ReconnectIdle ==
    /\ wsc = [ws |-> NoSocket, reconnectAttempts |-> 0, isConnecting |-> FALSE]
    /\ sockets = [s \in Sockets |-> "NONE"]
    /\ timers = EmptyBag
    /\ rc = [op |-> "IDLE", socket |-> NoSocket, emit |-> <<>>, scheduled |-> 0,
             delays |-> <<>>, terminal |-> FALSE, calls |-> 0,
             manual |-> FALSE]

\* new EventEmitter(): no listener
EmitterIdle ==
    /\ events = [topic \in Topics |-> <<>>]
    /\ em = [op |-> "IDLE", topic |-> "", before |-> <<>>, invoked |-> <<>>,
             propagated |-> FALSE, listeners |-> 0]

\* no SessionManager call was made
SdkIdle ==
    /\ calls = [k \in CallIds |-> NoPromise]
    /\ replies = <<>>
    /\ sdk = [currentSessionId |-> NoSession, connected |-> FALSE,
              attached |-> NoSession]

\* new WebRTCManager(): no local stream, no peer connection
RtcIdle ==
    rtc = [localStream |-> FALSE, known |-> {}, peers |-> [p \in PeerIds |-> NoPeer],
           audioContexts |-> {}, audioAnalyzers |-> {}, statsIntervals |-> {},
           stops |-> 0, errors |-> 0, op |-> "IDLE", ok |-> TRUE]

\* no handler is waiting for Redis
AsyncIdle ==
    /\ pending = <<>>
    /\ tasks = [c \in Clients |-> [msg |-> NoTask, close |-> NoTask]]

\* no client engine is modelled next to the servers
ClientIdle == ReconnectIdle /\ EmitterIdle /\ SdkIdle /\ RtcIdle /\ AsyncIdle

\* no server is modelled next to the client engines
ServerIdle ==
    /\ relay = [s \in SessionIds |-> NoRecord]
    /\ sm = [useRedis |-> FALSE,
             sessions |-> [s \in SessionIds |-> NoRecord],
             participants |-> [s \in SessionIds |-> {}],
             recTtl |-> [s \in SessionIds |-> NoTTL],
             setTtl |-> [s \in SessionIds |-> NoTTL]]
    /\ connections = {}
    /\ readyState = [c \in Clients |-> "NEW"]
    /\ wsSessionId = [c \in Clients |-> NoSession]
    /\ nextSession = 0
    /\ tally = [s \in SessionIds |->
                  [joins |-> 0, fresh |-> 0, leaves |-> 0, expired |-> FALSE]]
    /\ sent = EmptyBag
    /\ last = Op("IDLE", NoClient, NoSession, NoPayload, TRUE)

\* a WebSocketClient just constructed, or a RealSyncEngine whose constructor
\* has called connect()
InitReconnect ==
    /\ program \in {"WebSocketClient", "RealSyncEngine"}
    /\ ServerIdle
    /\ AsyncIdle
    /\ RtcIdle
    /\ EmitterIdle
    /\ SdkIdle
    /\ timers = EmptyBag
    /\ rc = [op |-> "IDLE", socket |-> NoSocket, emit |-> <<>>, scheduled |-> 0,
             delays |-> <<>>, terminal |-> FALSE, calls |-> 0,
             manual |-> FALSE]
    /\ IF program = "RealSyncEngine"
       THEN /\ wsc = [ws |-> 1, reconnectAttempts |-> 0, isConnecting |-> FALSE]
            /\ sockets = [s \in Sockets |-> IF s = 1 THEN "CONNECTING" ELSE "NONE"]
       ELSE /\ wsc = [ws |-> NoSocket, reconnectAttempts |-> 0,
                      isConnecting |-> FALSE]
            /\ sockets = [s \in Sockets |-> "NONE"]

InitEvents ==
    /\ program \in {"EventEmitter", "SyncEngine", "RealSyncEngine"}
    /\ ServerIdle
    /\ AsyncIdle
    /\ RtcIdle
    /\ ReconnectIdle
    /\ EmitterIdle
    /\ SdkIdle

UserTopics == {"ws:syncEvent", "ws:error"}
ListenerIds == 1..MaxListeners

NextEvents ==
    \/ \E topic \in UserTopics, isOnce, throws \in BOOLEAN :
          EventEmitter_on(topic, isOnce, throws)
    \/ \E topic \in UserTopics, id \in ListenerIds : EventEmitter_off(topic, id)
    \/ \E topic \in UserTopics : EventEmitter_emit(topic)
    \/ \E throws \in BOOLEAN : SyncEngine_subscribe(throws)
    \/ \E id \in ListenerIds : SyncEngine_unsubscribe(id)
    \/ SyncEngine_notify

\* after new ShopWithFriends(config) and init(): setupEventHandlers has
\* registered the SDK's own ws:error listener, the transport is open
InitSdk ==
    /\ program = "ShopWithFriends"
    /\ ServerIdle
    /\ AsyncIdle
    /\ RtcIdle
    /\ ReconnectIdle
    /\ events = [topic \in Topics |->
                    IF topic = "ws:error"
                    THEN <<Listener(<<NoCall, topic>>, FALSE, FALSE, NoCall, "none")>>
                    ELSE <<>>]
    /\ em = [op |-> "IDLE", topic |-> "", before |-> <<>>, invoked |-> <<>>,
             propagated |-> FALSE, listeners |-> 0]
    /\ calls = [k \in CallIds |-> NoPromise]
    /\ replies = <<>>
    /\ sdk = [currentSessionId |-> NoSession, connected |-> TRUE,
              attached |-> NoSession]

\* the session the SDK's user was invited to
JoinTargets == {Min(SessionIds)}

ReplyTypes == {"SESSION_CREATED", "SESSION_JOINED", "SESSION_LEFT", "ERROR"}
PayloadSessions == {NoSession} \cup CallIds \cup SessionIds

NextSdk ==
    \/ sdk_createSession
    \/ \E sessionId \in JoinTargets : sdk_joinSession(sessionId)
    \/ sdk_leaveSession
    \/ \E type \in ReplyTypes, payloadSession \in PayloadSessions :
          sdk_onmessage(type, payloadSession)
    \/ \E k \in CallIds : sdk_timeout(k)
    \/ sdk_onerror
    \/ sdk_onopen

\* the manager of a participant whose session has other participants
InitRtc ==
    /\ program \in {"WebRTCManager", "RealSyncEngine"}
    /\ ServerIdle
    /\ AsyncIdle
    /\ ReconnectIdle
    /\ EmitterIdle
    /\ SdkIdle
    /\ \E known \in SUBSET PeerIds :
          rtc = [localStream |-> FALSE, known |-> known,
                 peers |-> [p \in PeerIds |-> NoPeer],
                 audioContexts |-> {}, audioAnalyzers |-> {}, statsIntervals |-> {},
                 stops |-> 0, errors |-> 0, op |-> "IDLE", ok |-> TRUE]

NextRtc ==
    \/ \E granted \in BOOLEAN : wrtc_startCall(granted)
    \/ \E targetId \in PeerIds : wrtc_connectToPeer(targetId)
    \/ \E granted \in BOOLEAN : rsc_startCall(granted)
    \/ \E sourceId \in PeerIds, type \in {"offer", "answer"} :
          rtc_description(sourceId, type)
    \/ \E sourceId \in PeerIds : rtc_described(sourceId)
    \/ \E sourceId \in PeerIds, candidate \in CandidateIds :
          rtc_candidate(sourceId, candidate)
    \/ \E sourceId \in PeerIds : rtc_ontrack(sourceId)
    \/ wrtc_stopCall

\* the API server on the durable backend, no client connected yet
InitAsync ==
    /\ program = "WebSocketHandler"
    /\ relay = [s \in SessionIds |-> NoRecord]
    /\ sm = [useRedis |-> TRUE,
             sessions |-> [s \in SessionIds |-> NoRecord],
             participants |-> [s \in SessionIds |-> {}],
             recTtl |-> [s \in SessionIds |-> NoTTL],
             setTtl |-> [s \in SessionIds |-> NoTTL]]
    /\ connections = {}
    /\ readyState = [c \in Clients |-> "NEW"]
    /\ wsSessionId = [c \in Clients |-> NoSession]
    /\ nextSession = 0
    /\ tally = [s \in SessionIds |->
                  [joins |-> 0, fresh |-> 0, leaves |-> 0, expired |-> FALSE]]
    /\ sent = EmptyBag
    /\ last = Op("IDLE", NoClient, NoSession, NoPayload, TRUE)
    /\ ReconnectIdle
    /\ EmitterIdle
    /\ SdkIdle
    /\ RtcIdle
    /\ AsyncIdle

NextAsync ==
    \/ \E c \in Clients : async_handleConnection(c)
    \/ \E c \in Clients : async_handleCreateSession(c)
    \/ \E c \in Clients, p \in JoinPayloads : async_handleJoinSession(c, p)
    \/ \E c \in Clients, p \in LeavePayloads : async_handleLeaveSession(c, p)
    \/ \E c \in Clients : async_handleDisconnect(c)
    \/ redis_get
    \/ redis_setex
    \/ redis_sadd
    \/ redis_srem
    \/ redis_del
    \/ redis_smembers
    \/ redis_expire

NextReconnect ==
    \/ wsc_callerConnect
    \/ \E d \in Delays : wsc_timeout(d)
    \/ \E s \in Sockets : wsc_onopen(s)
    \/ \E s \in Sockets : wsc_onerror(s)
    \/ \E s \in Sockets : wsc_onclose(s)
    \/ wsc_disconnect
    \/ \E d \in Delays : rse_timeout(d)
    \/ \E s \in Sockets : rse_onopen(s)
    \/ \E s \in Sockets : rse_onerror(s)
    \/ \E s \in Sockets : rse_onclose(s)

Init ==
    /\ program \in {"api", "relay"}
    /\ relay = [s \in SessionIds |-> NoRecord]
    /\ \E r \in BOOLEAN :
         /\ program = "relay" => ~r
         /\ sm = [useRedis |-> r,
                 sessions |-> [s \in SessionIds |-> NoRecord],
                 participants |-> [s \in SessionIds |-> {}],
                 recTtl |-> [s \in SessionIds |-> NoTTL],
                 setTtl |-> [s \in SessionIds |-> NoTTL]]
    /\ connections = {}
    /\ readyState = [c \in Clients |-> "NEW"]
    /\ wsSessionId = [c \in Clients |-> NoSession]
    /\ nextSession = 0
    /\ tally = [s \in SessionIds |->
                  [joins |-> 0, fresh |-> 0, leaves |-> 0, expired |-> FALSE]]
    /\ sent = EmptyBag
    /\ last = Op("IDLE", NoClient, NoSession, NoPayload, TRUE)
    /\ ClientIdle

\* ------------------------------------------------------------ observations
RECURSIVE Copies(_)
Copies(S) ==
    IF S = {} THEN 0
    ELSE LET m == CHOOSE x \in S : TRUE IN CopiesIn(m, sent) + Copies(S \ {m})

\* how many frames of a type the last handler wrote to a transport
Received(clientId, type) ==
    Copies({m \in BagToSet(sent) : m.to = clientId /\ m.type = type})

ReceivedAny(clientId) ==
    Copies({m \in BagToSet(sent) : m.to = clientId})

Participants(sessionId) == Range(getParticipants(sm, sessionId))

OpenRegistered == {c \in connections : readyState[c] = OPEN}

\* the handler of WebSocketHandler that ran last, with success
Ran(op) == program = "api" /\ last.op = op /\ last.ok

C2_SyncEventStaysInSession ==
    Ran("SYNC_EVENT") =>
        \A m \in BagToSet(sent) :
            m.type = "SYNC_EVENT" => wsSessionId[m.to] = last.sessionId

\* ---------------------------------------------------------------------- C3
\* C3: every SYNC_EVENT and every signaling message the server delivers carries
\* the sender's server-assigned identity as sourceId, whatever the payload claimed.
C3_TrueSourceId ==
    \A m \in BagToSet(sent) :
        m.type \in {"SYNC_EVENT", "WEBRTC_SIGNAL", "SIGNAL", "NAVIGATE"} =>
            m.payload.sourceId = last.clientId

\* a delivered event whose sender claimed another identity
C3_Witness ==
    /\ Ran("SYNC_EVENT")
    /\ last.payload.sourceId \notin {NoClient, last.clientId}
    /\ \E m \in BagToSet(sent) : m.type = "SYNC_EVENT"

\* ---------------------------------------------------------------------- C4
\* C4: a signaling message with a targetId from a connection attached to S is
\* written once, to the target alone and with the sender's signal unchanged,
\* when the target is registered, open and attached to S; otherwise nothing
\* is written to anyone.
C4_TargetedSignal ==
    (Ran("WEBRTC_SIGNAL") /\ last.payload.targetId # NoClient) =>
        LET target == last.payload.targetId IN
        sent = IF /\ target \in OpenRegistered
                  /\ wsSessionId[target] = last.sessionId
               THEN SetToBag({Msg(target, "WEBRTC_SIGNAL",
                                  [sourceId |-> last.clientId,
                                   signal |-> last.payload.signal])})
               ELSE EmptyBag

\* the target got the signal while a third participant of S, open too, got nothing
C4_Witness ==
    /\ Ran("WEBRTC_SIGNAL")
    /\ last.payload.targetId # NoClient
    /\ last.payload.targetId # last.clientId
    /\ Received(last.payload.targetId, "WEBRTC_SIGNAL") = 1
    /\ \E c \in (Participants(last.sessionId) \cap OpenRegistered)
                    \ {last.clientId, last.payload.targetId} :
           wsSessionId[c] = last.sessionId /\ ReceivedAny(c) = 0

\* ---------------------------------------------------------------------- C5
\* C5: a signaling message without a targetId from a connection attached to S
\* is delivered to every other participant of S that has an open connection,
\* and not to the sender.
C5_BroadcastSignal ==
    (Ran("WEBRTC_SIGNAL") /\ last.payload.targetId = NoClient) =>
        \A c \in Clients :
            Received(c, "WEBRTC_SIGNAL") =
                (IF c \in (Participants(last.sessionId) \cap OpenRegistered)
                           \ {last.clientId}
                 THEN 1 ELSE 0)

RepositoryCallCompleted ==
    \/ Ran("CREATE_SESSION") \/ Ran("JOIN_SESSION") \/ Ran("LEAVE_SESSION")
    \/ (Ran("CLOSE") /\ last.sessionId # NoSession)

C7_RecordIffParticipants ==
    RepositoryCallCompleted =>
        \A s \in SessionIds :
            (getSession(sm, s) # NoRecord) <=> (Participants(s) # {})

\* ---------------------------------------------------------------------- C8
\* C8: the participant list stored in a session record never holds an
\* identity twice.
C8_NoDuplicateParticipant ==
    \A s \in SessionIds :
        getSession(sm, s) # NoRecord =>
            LET list == getSession(sm, s).participants IN
            \A i, j \in DOMAIN list : list[i] = list[j] => i = j

\* ---------------------------------------------------------------------- C9
JoinAnnounced ==
    LET joiner == last.clientId
        sessionId == last.payload.sessionId
    IN  /\ \A c \in Clients :
              Received(c, "PARTICIPANT_JOINED") =
                  (IF c \in (Participants(sessionId) \cap OpenRegistered) \ {joiner}
                   THEN 1 ELSE 0)
        /\ \A m \in BagToSet(sent) :
              m.type = "PARTICIPANT_JOINED" => m.payload.userId = joiner
        /\ Received(joiner, "SESSION_JOINED") = 1
        /\ ReceivedAny(joiner) = 1
        /\ wsSessionId[joiner] = sessionId

JoinedList ==
    LET m == CHOOSE x \in BagToSet(sent) : x.type = "SESSION_JOINED"
    IN  Range(m.payload.participants)

C10_CloseHandled ==
    Ran("CLOSE") =>
        /\ last.clientId \notin connections
        /\ IF last.sessionId = NoSession
           THEN sent = EmptyBag
           ELSE /\ last.clientId \notin Participants(last.sessionId)
                /\ \A c \in Clients :
                      Received(c, "PARTICIPANT_LEFT") =
                          (IF c \in Participants(last.sessionId) \cap OpenRegistered
                           THEN 1 ELSE 0)
                /\ \A m \in BagToSet(sent) :
                      m.type = "PARTICIPANT_LEFT"
                          /\ m.payload.userId = last.clientId

\* --------------------------------------------------------------------- C18
\* what a handler may not touch when it only reports an error
ErrorOnly(clientId, message) ==
    /\ sent' = SetToBag({Msg(clientId, "ERROR", [message |-> message])})
    /\ UNCHANGED <<sm, relay, connections, readyState, wsSessionId, nextSession>>

\* C18: a message that is no valid JSON, or whose type is not recognized, gets
\* exactly one ERROR reply on its own connection and changes nothing else: the
\* connection stays open, registered and attached as it was, no session and no
\* participant set changes, and no other connection receives anything.
C18_InvalidMessageOnlyReplies ==
    [][(program = "api" /\ last'.op = "MESSAGE") =>
          /\ ErrorOnly(last'.clientId, last'.payload.error)
          /\ last'.clientId \in connections'
          /\ readyState'[last'.clientId] = OPEN]_vars

\* an invalid message from a connection attached to a session with another
\* open participant
C18_Witness ==
    /\ program = "api"
    /\ last.op = "MESSAGE"
    /\ wsSessionId[last.clientId] # NoSession
    /\ (Participants(wsSessionId[last.clientId]) \cap OpenRegistered)
           \ {last.clientId} # {}
    /\ ~last.payload.json

\* --------------------------------------------------------------------- C19
\* C19: JOIN_SESSION for a session id that has no record replies ERROR to the
\* caller and changes no state: the attachment stays, no record and no
\* participant set is created or changed, nobody gets PARTICIPANT_JOINED.
C19_JoinUnknownSession ==
    [][(/\ program = "api"
        /\ last'.op = "JOIN_SESSION"
        /\ getSession(sm, last'.payload.sessionId) = NoRecord) =>
          ErrorOnly(last'.clientId, "Session not found")]_vars

\* a refused join of a connection that is attached to another, live session
C19_Witness ==
    /\ program = "api"
    /\ last.op = "JOIN_SESSION"
    /\ ~last.ok
    /\ wsSessionId[last.clientId] # NoSession
    /\ wsSessionId[last.clientId] # last.payload.sessionId
    /\ getSession(sm, wsSessionId[last.clientId]) # NoRecord

\* --------------------------------------------------------------------- C20
\* C20: a SYNC_EVENT or a signaling message from a connection attached to no
\* session gets an ERROR reply on that connection, reaches no other
\* connection and changes no session state, in either server.
C20_NotInSession ==
    [][(/\ last'.op \in {"SYNC_EVENT", "WEBRTC_SIGNAL", "SIGNAL"}
        /\ wsSessionId[last'.clientId] = NoSession) =>
          ErrorOnly(last'.clientId, "Not in a session")]_vars

\* --------------------------------------------------------------------- C11
\* transports the engine has created so far
Created == {s \in Sockets : sockets[s] # "NONE"}

\* C11: WebSocketClient schedules at most maxReconnectAttempts reconnects
\* between two successful opens; a close that finds the counter at the
\* maximum sets no timer and emits ws:reconnectFailed; and from then on no
\* transport is created until the caller invokes connect() again.
C11_ReconnectBounded ==
    [][WebSocketClient =>
         /\ rc'.scheduled <= maxReconnectAttempts
         /\ (rc'.op = "close" /\ wsc.reconnectAttempts = maxReconnectAttempts) =>
                /\ timers' = timers
                /\ "ws:reconnectFailed" \in Range(rc'.emit)
         /\ (rc.terminal /\ Created' # Created) => rc'.op = "connect"]_vars

\* --------------------------------------------------------------------- C12
\* C12: no reconnect delay a client engine schedules exceeds the cap of 10 s,
\* for every attempt from the first to the last.
C12_DelayCapped ==
    \A i \in DOMAIN rc.delays : rc.delays[i] <= MaxReconnectDelay

\* --------------------------------------------------------------------- C13
\* C13: within one run of consecutive failed reconnects every delay of a
\* client engine is strictly larger than the one before it.
C13_DelayGrows ==
    \A i \in DOMAIN rc.delays :
        i > 1 => rc.delays[i - 1] < rc.delays[i]

\* how often the call noted in em invoked listener l
Invocations(l) == Cardinality({i \in DOMAIN em.invoked : em.invoked[i].id = l.id})

\* the call noted in em was a delivery to at least one listener
Delivered == em.op = "emit" /\ em.before # <<>>

\* C16: EventEmitter.emit(topic) invokes every listener registered for the topic
\* when emit is called exactly once, whatever mix of on() and once() listeners
\* is registered and in whatever order.
C16_EmitInvokesEach ==
    (EventEmitter /\ Delivered) =>
        \A i \in DOMAIN em.before : Invocations(em.before[i]) = 1

\* C17: when a listener throws during a delivery, every other listener that is
\* registered is still invoked, and the exception does not reach the caller of
\* EventEmitter.emit, RealSyncEngine.notify or SyncEngine.notify.
C17_ThrowIsolated ==
    (Delivered /\ \E i \in DOMAIN em.invoked : em.invoked[i].throws) =>
        /\ ~em.propagated
        /\ \A i \in DOMAIN em.before : Invocations(em.before[i]) >= 1

\* the engines' notify alone isolates a throwing listener
NotifyIsolated == SyncEngine => C17_ThrowIsolated

\* the calls of SessionManager.create, join or leave made so far
CallsOf(kinds) == {k \in CallIds : calls[k].kind \in kinds}

\* a call that has not settled still has its timer, so it settles at the latest
\* when the timer fires
TimerSettles(c) == c.state = "pending" => c.timer

\* C14: a call of SessionManager.create or join settles, once: resolved if its
\* success event fired first, rejected with the error if ws:error fired first,
\* rejected by the 10 s timer if neither fired (also when the command was not sent).
C14_CreateJoinSettles ==
    \A k \in CallsOf({"create", "join"}) :
        LET c == calls[k] IN
        /\ TimerSettles(c)
        /\ c.first # "" =>
              /\ c.state = (IF c.first = "success" THEN "resolved" ELSE "rejected")
              /\ c.by = c.first

\* C15: SessionManager.leave never rejects and resolves when SESSION_LEFT arrives
\* or when the 5 s timer fires, whichever is first; leaveSession then clears
\* currentSessionId.
C15_LeaveResolves ==
    \A k \in CallsOf({"leave"}) :
        LET c == calls[k] IN
        /\ c.state # "rejected"
        /\ TimerSettles(c)
        /\ c.first # "" => (c.state = "resolved" /\ c.by = c.first /\ c.cleared)

\* --------------------------------------------------------------------- C21
\* a handler that only reports an error, whatever the text of the message
RefusedOnly(clientId) ==
    /\ \E m \in BagToSet(sent') :
          /\ sent' = SetToBag({m})
          /\ m.to = clientId
          /\ m.type = "ERROR"
    /\ UNCHANGED <<sm, relay, connections, readyState, wsSessionId, nextSession>>

\* C21: a LEAVE_SESSION from a connection that is not attached to the session
\* the message names gets an ERROR reply and changes no state: no participant
\* set changes, no PARTICIPANT_LEFT and no SESSION_LEFT is sent, and the
\* connection keeps its attachment.
C21_LeaveNotAttached ==
    [][(/\ program = "api"
        /\ last'.op = "LEAVE_SESSION"
        /\ wsSessionId[last'.clientId] # last'.payload.sessionId) =>
          RefusedOnly(last'.clientId)]_vars

\* --------------------------------------------------------------------- C29
\* C29: when a connection attached to session S sends LEAVE_SESSION for S, its
\* identity is afterwards no participant of S, every remaining participant with
\* an open connection has received PARTICIPANT_LEFT{userId=leaver} exactly once,
\* the leaver has received SESSION_LEFT and no PARTICIPANT_LEFT, and the
\* connection is attached to no session and still registered.
C29_LeaveAttached ==
    (Ran("LEAVE_SESSION") /\ last.sessionId = last.payload.sessionId) =>
        /\ last.clientId \notin Participants(last.sessionId)
        /\ \A c \in Clients \ {last.clientId} :
              Received(c, "PARTICIPANT_LEFT") =
                  (IF c \in Participants(last.sessionId) \cap OpenRegistered
                   THEN 1 ELSE 0)
        /\ \A m \in BagToSet(sent) :
              m.type = "PARTICIPANT_LEFT" => m.payload.userId = last.clientId
        /\ Received(last.clientId, "SESSION_LEFT") = 1
        /\ Received(last.clientId, "PARTICIPANT_LEFT") = 0
        /\ wsSessionId[last.clientId] = NoSession
        /\ last.clientId \in connections

\* --------------------------------------------------------------------- C23
\* the session whose keys the handler that ran last has written
Written ==
    IF last.op \in {"JOIN_SESSION", "LEAVE_SESSION"} THEN last.payload.sessionId
    ELSE last.sessionId

\* C23: with the durable backend, after every completed createSession,
\* addParticipant, removeParticipant that keeps the session, and
\* refreshSession, the key session:<id>:participants has the same remaining
\* time to live as the key session:<id>.
C23_SameTimeToLive ==
    (/\ sm.useRedis
     /\ \/ RepositoryCallCompleted
        \/ Ran("SYNC_EVENT")
        \/ Ran("HEARTBEAT")
     /\ getSession(sm, Written) # NoRecord) =>
        sm.setTtl[Written] = sm.recTtl[Written]

\* --------------------------------------------------------------------- C22
\* the transports of the engine that are connecting or open
Active == {s \in Sockets : sockets[s] \in {"CONNECTING", OPEN}}

\* C22: a WebSocketClient never has two transports in CONNECTING or OPEN state
\* at the same time, for any interleaving of connect(), disconnect(), the
\* transport's callbacks and the reconnect timers.
C22_SingleTransport == WebSocketClient => Cardinality(Active) <= 1

\* --------------------------------------------------------------------- C30
\* C30: after a manual disconnect() (or destroy(), which calls it) every
\* pending reconnect is cancelled, and no new transport is opened unless the
\* caller invokes connect() again.
C30_ManualDisconnectStops ==
    [][rc'.manual =>
          /\ rc'.op = "disconnect" => timers' = EmptyBag
          /\ rc.manual => (Created' = Created /\ timers' = EmptyBag)]_vars

\* --------------------------------------------------------------------- C26
\* C26: an ICE candidate that arrives from a peer before that peer's remote
\* description is set is not lost: no signaling error is raised for it, and it
\* is applied to the peer connection once the remote description is set at the
\* latest, whatever the order in which descriptions and candidates arrive.
C26_EarlyCandidateKept ==
    /\ rtc.errors = 0
    /\ \A p \in PeerIds :
          /\ rtc.peers[p].lost = {}
          /\ rtc.peers[p].remote = "set" => rtc.peers[p].received \subseteq rtc.peers[p].applied

\* --------------------------------------------------------------------- C27
\* C27: when WebRTCManager.startCall has completed successfully, an offer has
\* been created, set as local description and sent through the relay to each
\* known peer of the session.
C27_StartCallOffers ==
    (WebRTCManager /\ rtc.op = "startCall" /\ rtc.ok) =>
        \A p \in rtc.known : rtc.peers[p].offered

\* --------------------------------------------------------------------- C24
\* the latest JOIN_SESSION handler of a connection
Join(c) == tasks[c].msg

\* two addParticipant calls on one session that both read the record before
\* either wrote it, and have both written by now
Raced(a, b) ==
    /\ a # b
    /\ Join(a).kind = "join" /\ Join(b).kind = "join"
    /\ Join(a).sessionId = Join(b).sessionId
    /\ Join(a).wrote /\ Join(b).wrote
    /\ Join(a).read = Join(b).read
    /\ a \notin Range(Join(a).read) /\ b \notin Range(Join(a).read)

\* C24: with the durable backend, when two addParticipant calls for different
\* identities on one session interleave so that both read the record before
\* either writes it, the stored record's participant list holds only one of
\* the two identities.
C24_LostUpdate ==
    \A a, b \in Clients :
        (Raced(a, b) /\ getSession(sm, Join(a).sessionId) # NoRecord) =>
            ~({a, b} \subseteq Range(getSession(sm, Join(a).sessionId).participants))

\* both joins have completed, nothing is in flight, both identities are in the
\* participant set and the stored record lists only one of them
C24_Witness ==
    /\ StepWise
    /\ pending = <<>>
    /\ \E a, b \in Clients :
          /\ Raced(a, b)
          /\ Join(a).joined /\ Join(b).joined
          /\ {a, b} \subseteq sm.participants[Join(a).sessionId]
          /\ getSession(sm, Join(a).sessionId) # NoRecord
          /\ a \notin Range(getSession(sm, Join(a).sessionId).participants)
          /\ b \in Range(getSession(sm, Join(a).sessionId).participants)

\* --------------------------------------------------------------------- C25
\* the connection closed while its JOIN_SESSION awaited addParticipant, the
\* join went on to add the identity, and the registry no longer holds it
Residual(c) ==
    /\ StepWise
    /\ Join(c).kind = "join" /\ Join(c).early /\ Join(c).joined
    /\ c \notin connections
    /\ c \in sm.participants[Join(c).sessionId]

\* the stored record lists the identity and so does every copy of the record
\* that a handler in flight is about to store; no deleteSession is under way
Settled(c) ==
    /\ getSession(sm, Join(c).sessionId) # NoRecord
    /\ c \in Range(getSession(sm, Join(c).sessionId).participants)
    /\ \A who \in Clients, slot \in {"msg", "close"} :
          tasks[who][slot].sessionId = Join(c).sessionId =>
              /\ tasks[who][slot].pc \notin {"del", "del2"}
              /\ tasks[who][slot].pc = "setex" =>
                     c \in Range(tasks[who][slot].session.participants)

Replied(c, type, s) ==
    \E m \in BagToSet(sent) :
        m.to = c /\ m.type = type /\ m.payload.sessionId = s

\* the participants listed by the stored record, none without a record
Listed(s) ==
    IF getSession(sm, s) = NoRecord THEN {}
    ELSE Range(getSession(sm, s).participants)

C31_StopCallReleasesAll ==
    (WebRTCManager /\ rtc.op = "stopCall") =>
        /\ \A p \in PeerIds : ~rtc.peers[p].exists
        /\ rtc.audioContexts = {}
        /\ rtc.audioAnalyzers = {}
        /\ rtc.statsIntervals = {}

\* --------------------------------------------------------------------- C32
\* C32: WebRTCManager holds at most one peer connection per remote identity:
\* a signal from an identity without a connection creates exactly one, an
\* offer is answered with an answer whose targetId is the offer's sourceId,
\* further signals from the identity reuse the connection, and connectToPeer
\* for an identity that has a connection sends no second offer.
C32_OnePeerPerIdentity ==
    WebRTCManager =>
        \A p \in PeerIds :
            /\ rtc.peers[p].made <= 1
            /\ rtc.peers[p].exists <=> rtc.peers[p].made = 1
            /\ rtc.peers[p].offers <= 1
            /\ rtc.peers[p].received # {} => rtc.peers[p].exists
            /\ rtc.peers[p].remote # "none" => rtc.peers[p].exists
            /\ rtc.peers[p].answered <=> rtc.peers[p].answerTo = p
            /\ rtc.peers[p].answerTo \in {NoClient, p}

\* a peer offered, was answered, then sent both its candidates, and
\* connectToPeer was called for it: still one connection, and no offer sent
C32_Witness ==
    /\ WebRTCManager
    /\ rtc.op = "connectToPeer"
    /\ \E p \in PeerIds :
          /\ rtc.peers[p].made = 1
          /\ rtc.peers[p].answerTo = p
          /\ rtc.peers[p].received = CandidateIds
          /\ rtc.peers[p].offers = 0

\* --------------------------------------------------------------------- C33
\* C33: with the in-memory backend, whenever a registered connection is
\* attached to session S, the record of S exists and the connection's identity
\* is a participant of S, in the record's list and in the participant set.
C33_AttachedIsParticipant ==
    (program = "api" /\ ~sm.useRedis) =>
        \A c \in connections :
            wsSessionId[c] # NoSession =>
                /\ getSession(sm, wsSessionId[c]) # NoRecord
                /\ c \in Range(getSession(sm, wsSessionId[c]).participants)
                /\ IsParticipant(sm, wsSessionId[c], c)

\* another participant of S has just left S or closed, and a registered
\* connection is still attached to S
C33_Witness ==
    /\ program = "api" /\ ~sm.useRedis
    /\ last.op \in {"LEAVE_SESSION", "CLOSE"}
    /\ \E c \in connections :
          /\ c # last.clientId
          /\ wsSessionId[c] # NoSession
          /\ wsSessionId[c] = last.sessionId
          /\ tally[wsSessionId[c]].leaves > 0
          /\ c \in Range(getSession(sm, wsSessionId[c]).participants)

\* --------------------------------------------------------------------- C35
\* C35: with the in-memory backend, for every live session the identities in
\* the record's participants array are exactly the members of the session's
\* participant set; a session without a record has no participant set.
C35_ArrayEqualsSet ==
    (program = "api" /\ ~sm.useRedis) =>
        \A s \in SessionIds :
            IF getSession(sm, s) = NoRecord
            THEN sm.participants[s] = {}
            ELSE Range(getSession(sm, s).participants) = sm.participants[s]

\* a session that an identity joined a second time, and that a participant
\* has left, is live
C35_Witness ==
    /\ program = "api" /\ ~sm.useRedis
    /\ \E s \in SessionIds :
          /\ getSession(sm, s) # NoRecord
          /\ tally[s].leaves > 0
          /\ tally[s].joins > tally[s].fresh
          /\ sm.participants[s] # {}

\* --------------------------------------------------------------------- C34
\* the sessions that still hold the identity
MemberOf(c) ==
    {s \in SessionIds :
        \/ c \in sm.participants[s]
        \/ getSession(sm, s) # NoRecord /\ c \in Range(getSession(sm, s).participants)
        \/ relay[s] # NoRecord /\ c \in relay[s].participants}

\* C34: once the close of a connection has been processed, with no operation
\* of the connection in flight, its identity is a participant of no session,
\* whatever CREATE_SESSION, JOIN_SESSION and LEAVE_SESSION it had sent; hence
\* a session all of whose members have disconnected is deleted.
C34_ClosedIsNowhere ==
    (program \in {"api", "relay"}) =>
        \A c \in Clients : readyState[c] = "CLOSED" => MemberOf(c) = {}

\* --------------------------------------------------------------------- C39
\* the listener is registered for the topic
Registered(topic, l) == \E i \in DOMAIN events[topic] : events[topic][i].id = l.id

\* C39: a listener registered with once(event, cb) is invoked at most once
\* over any sequence of emit(event) calls: the emit that invokes it invokes it
\* once and leaves it unregistered, whether cb returns normally or throws.
C39_OnceAtMostOnce ==
    (EventEmitter /\ em.op = "emit") =>
        \A i \in DOMAIN em.invoked :
            em.invoked[i].once =>
                /\ Invocations(em.invoked[i]) = 1
                /\ ~Registered(em.topic, em.invoked[i])

\* --------------------------------------------------------------------- C37
\* the one-shot listeners of call k that are still registered
Remaining(k) ==
    {topic \in Topics : \E i \in DOMAIN events[topic] : events[topic][i].call = k}

\* C37: after a SessionManager.create, join or leave call has settled (by its
\* success event, by the error event or by the timer), none of the one-shot
\* listeners the call registered remains in the EventEmitter.
C37_SettledLeavesNoListener ==
    ShopWithFriends =>
        \A k \in CallIds :
            calls[k].state \in {"resolved", "rejected"} => Remaining(k) = {}

\* --------------------------------------------------------------------- C38
\* the step delivers the server's reply to the oldest command still unanswered
ReplyArrives ==
    /\ ShopWithFriends
    /\ replies # <<>>
    /\ replies' = Tail(replies)
    /\ sdk.connected /\ sdk'.connected

\* C38: with two or more create/join calls pending on one SDK instance, each
\* call settles by the server's reply to its own request: a reply or ERROR
\* that belongs to another request neither resolves nor rejects it.
C38_OwnReplySettles ==
    [][ReplyArrives =>
          \A k \in CallsOf({"create", "join"}) :
              (calls[k].state = "pending" /\ calls'[k].state # "pending") =>
                  k = Head(replies).call]_vars

\* --------------------------------------------------------------------- C36
\* no command of the SDK is unanswered and no call is pending
Quiet ==
    /\ replies = <<>>
    /\ \A k \in CallIds : calls[k].state # "pending"

\* C36: whenever the SDK reports isInSession() with currentSessionId = S and
\* its transport is open (and nothing is in flight), the server has the
\* client's current connection attached to S; this keeps holding after a
\* transport loss followed by a successful automatic reconnect.
C36_SdkAgreesWithServer ==
    (ShopWithFriends /\ sdk.connected /\ Quiet /\ sdk.currentSessionId # NoSession) =>
        sdk.attached = sdk.currentSessionId

Spec == Init /\ [][Next]_vars
SpecReconnect == InitReconnect /\ [][NextReconnect]_vars
SpecEvents == InitEvents /\ [][NextEvents]_vars
SpecSdk == InitSdk /\ [][NextSdk]_vars
SpecRtc == InitRtc /\ [][NextRtc]_vars
SpecAsync == InitAsync /\ [][NextAsync]_vars
====
